---- MODULE Spec2Model ----
(***************************************************************************)
(* A model of ejudge's build/execution orchestration:                      *)
(*   - the fine-grained interaction protocol with an external process      *)
(*     (PInteractExecutionManager.run_pinteract, driven by run()),         *)
(*   - the ExecutionManager / BuildManager life cycle,                     *)
(*   - in-process execution (IntegratedExecutionManager),                  *)
(*   - the public run / grade functions.                                   *)
(* Each part has its own variables and its own specification; a            *)
(* specification leaves the variables of the other parts at their initial  *)
(* values.                                                                 *)
(***************************************************************************)
EXTENDS Integers, Sequences, FiniteSets, TLC

VARIABLES
    \* --- fine-grained external execution (run_pinteract) ---
    pi_inputs,      \* self.inputs: the scheduled input strings
    pi_timeout,     \* the timeout handed to run(): "None" or "T"
    pi_pc,          \* position of run(): "init", "recv", "send", "finish", "done"
    pi_sent,        \* number of inputs sent successfully so far
    pi_result,      \* self.interaction, the list run_pinteract appends to
    pi_calls,       \* the calls made on the process handle, in order
    pi_alive,       \* whether the external process is still alive
    pi_case,        \* what run() gave back: a test case or an exception
    \* --- the BuildManager shared by the ExecutionManagers ---
    bm_class,       \* the class of the build manager
    bm_syntax_ok,   \* whether syntax_check() accepts self.source
    bm_compiler,    \* what the compiler does with the source
    bm_build_path,  \* self.build_path: "None" or the temporary directory
    bm_files,       \* the files in the build directory
    bm_failed,      \* a build() of the unbuilt manager has raised
    bm_is_built,    \* BuildManager.is_built
    bm_is_closed,   \* BuildManager.is_closed
    bm_hse,         \* BuildManager.has_successful_execution
    bm_exec_dur,    \* BuildManager.execution_duration
    \* --- the ExecutionManagers bound to it ---
    em_is_started,  \* ExecutionManager.is_started
    em_is_closed,   \* ExecutionManager.is_closed
    em_duration,    \* ExecutionManager.duration
    em_interacts,   \* how many times interact() was entered on the instance
    em_call,        \* the last call made on a manager and how it ended
    em_tick,        \* flips with every call
    \* --- in-process execution (IntegratedExecutionManager) ---
    it_entry,       \* how the process calling run() was entered
    it_timeout,     \* the timeout handed to run(): "None" or "T"
    it_prog,        \* the user program: its statements
    it_inputs,      \* self.inputs
    it_par,         \* the process that called run(): position of interact()
    it_child,       \* the spawned child process: "none", "running", "exited"
    it_queue,       \* the multiprocessing.Queue between child and parent
    it_main,        \* the thread in interact_with_timeout()
    it_exec,        \* the thread in wrapped_exec()
    it_ip,          \* the statement the program is at
    it_consumed,    \* inputs handed out by the instrumented input()
    it_interaction, \* self.interaction in the executing process
    it_builtins,    \* per process: the global print/input, "orig" or "patched"
    it_fail,        \* the exception the program raised, with the nodes then
    it_execResult,  \* what wrapped_exec() returned
    it_result,      \* what interact_with_timeout() handed back
    it_out,         \* what run() gave to its caller
    \* --- the public functions (run_from_manager, grade_from_manager) ---
    fn_func,        \* "run" or "grade"
    fn_timeout,     \* the timeout argument
    fn_raises,      \* the raises argument
    fn_fast,        \* grade's fast argument
    fn_strategy,    \* how the language's manager executes
    fn_build,       \* what build() does: "ok" or the BuildError message
    fn_kinds,       \* per input set: what the program does on it
    fn_pc,          \* position of the function
    fn_idx,         \* input sets gone through
    fn_cases,       \* the test cases produced, in order
    fn_error_message, \* grade_from_manager's error_message
    fn_feedback,    \* grade_from_manager's feedback
    fn_value,       \* grade_from_manager's value
    \* --- ExternalProgramBuildManager.write ---
    wr_build_path,  \* self.build_path: "None" or the build directory
    wr_absolute,    \* whether the target path starts at the root
    wr_path,        \* the target path: its components
    wr_outcome,     \* how write() ended
    wr_written,     \* the locations written to
    \* --- PInteractExecutionManager.interact: the mode of a run ---
    md_flag,        \* build_manager.compare_streams: "None", "True", "False"
    md_inputs,      \* self.inputs
    md_timeout,     \* the timeout handed to interact(): "None" or "T"
    md_pc,          \* "init", "popen", "pinteract", "done"
    md_mode,        \* the runner interact() chose: "-", "popen", "pinteract"
    md_case,        \* what interact() returned or raised
    \* --- LanguageRegistry ---
    rg_extensions,  \* self._extensions: extension -> language
    rg_build_managers,      \* self._build_managers: id -> class
    rg_execution_managers,  \* self._execution_managers: id -> class
    rg_registered,  \* the pairs <<extension, language>> registered so far
    rg_call,        \* the call on the registry and how it ended
    \* --- file permissions of an external build ---
    sb_sandboxed,   \* self.is_sandboxed
    sb_class,       \* "compiled" or "interpreted"
    sb_compiler,    \* how the compiler ends: "ok", "nonzero", "timeout"
    sb_umask,       \* the permission bits the process's umask takes away
    sb_pc,          \* "tempdir", "prepare", "compile", "built", "failed"
    sb_dir_mode,    \* the permission bits of the build directory
    sb_modes,       \* file in the build directory -> its permission bits
    \* --- the inputs of an ExecutionManager ---
    ai_inputs,      \* self.inputs
    ai_run_inputs,  \* the inputs interact() took hold of when it began
    ai_is_started,  \* self.is_started
    ai_is_closed,   \* self.is_closed
    ai_call,        \* the last call on the manager
    \* --- util.timeout ---
    to_given,       \* whether the timeout argument is not None
    to_timeout,     \* the timeout argument when given
    to_threading,   \* the threading argument
    to_time,        \* the time the function needs
    to_end,         \* how the function ends: "returns", "raises", "exits"
    to_outcome,     \* what timeout() did: "none" before the call
    \* --- the global print and input over successive runs ---
    bi_builtins,    \* builtins.print / input: 0 the originals, r those of run r
    bi_main,        \* per run, the thread in util.timeout: "idle", "join", "done"
    bi_worker,      \* per run, its worker: "idle", "start", "patched", "printed",
                    \* "read", "ended"
    bi_printed_by,  \* per run, whose print() its program's call reached
    bi_read_by      \* per run, whose input() its program's call reached

piVars == <<pi_inputs, pi_timeout, pi_pc, pi_sent, pi_result, pi_calls,
            pi_alive, pi_case>>

bmVars == <<bm_class, bm_syntax_ok, bm_compiler, bm_is_built, bm_is_closed,
            bm_hse, bm_exec_dur, bm_build_path, bm_files, bm_failed>>

emVars == <<em_is_started, em_is_closed, em_duration, em_interacts,
            em_call, em_tick>>

itVars == <<it_entry, it_timeout, it_prog, it_inputs, it_par, it_child,
            it_queue, it_main, it_exec, it_ip, it_consumed, it_interaction,
            it_builtins, it_fail, it_execResult, it_result, it_out>>

fnVars == <<fn_func, fn_timeout, fn_raises, fn_fast, fn_strategy, fn_build,
            fn_kinds, fn_pc, fn_idx, fn_cases, fn_error_message, fn_feedback,
            fn_value>>

wrVars == <<wr_build_path, wr_absolute, wr_path, wr_outcome, wr_written>>

mdVars == <<md_flag, md_inputs, md_timeout, md_pc, md_mode, md_case>>

rgVars == <<rg_extensions, rg_build_managers, rg_execution_managers,
            rg_registered, rg_call>>

sbVars == <<sb_sandboxed, sb_class, sb_compiler, sb_umask, sb_pc, sb_dir_mode,
            sb_modes>>

aiVars == <<ai_inputs, ai_run_inputs, ai_is_started, ai_is_closed, ai_call>>

toVars == <<to_given, to_timeout, to_threading, to_time, to_end, to_outcome>>

biVars == <<bi_builtins, bi_main, bi_worker, bi_printed_by, bi_read_by>>

vars == <<piVars, bmVars, emVars, itVars, fnVars, wrVars, mdVars, rgVars,
          sbVars, aiVars, toVars, biVars>>

(* What a step of one part leaves alone: the variables of the others. *)
PIFrame ==
    UNCHANGED <<bmVars, emVars, itVars, fnVars, wrVars, mdVars, rgVars, sbVars,
                aiVars, toVars, biVars>>

EMFrame ==
    UNCHANGED <<piVars, itVars, fnVars, wrVars, mdVars, rgVars, sbVars,
                aiVars, toVars, biVars>>

ITFrame ==
    UNCHANGED <<piVars, bmVars, emVars, fnVars, wrVars, mdVars, rgVars, sbVars,
                aiVars, toVars, biVars>>

FNFrame ==
    UNCHANGED <<piVars, bmVars, emVars, itVars, wrVars, mdVars, rgVars, sbVars,
                aiVars, toVars, biVars>>

WRFrame ==
    UNCHANGED <<piVars, bmVars, emVars, itVars, fnVars, mdVars, rgVars, sbVars,
                aiVars, toVars, biVars>>

MDFrame ==
    UNCHANGED <<piVars, bmVars, emVars, itVars, fnVars, wrVars, rgVars, sbVars,
                aiVars, toVars, biVars>>

SBFrame ==
    UNCHANGED <<piVars, bmVars, emVars, itVars, fnVars, wrVars, mdVars, rgVars,
                aiVars, toVars, biVars>>

AIFrame ==
    UNCHANGED <<piVars, bmVars, emVars, itVars, fnVars, wrVars, mdVars, rgVars,
                sbVars, toVars, biVars>>

TOFrame ==
    UNCHANGED <<piVars, bmVars, emVars, itVars, fnVars, wrVars, mdVars, rgVars,
                sbVars, aiVars, biVars>>

BIFrame ==
    UNCHANGED <<piVars, bmVars, emVars, itVars, fnVars, wrVars, mdVars, rgVars,
                sbVars, aiVars, toVars>>

RGFrame ==
    UNCHANGED <<piVars, bmVars, emVars, itVars, fnVars, wrVars, mdVars, sbVars,
                aiVars, toVars, biVars>>

---------------------------------------------------------------------------
(* Bounds of the model. *)

MaxInputs == 2

NumEM == 2

MaxDur == 1

MaxProg == 2

MaxSets == 2

MaxPath == 4

MaxExts == 2

MaxTimeout == 2

NumRuns == 2

(* Text is a sequence of characters; "nl" is the newline character. *)
InputValues == {<<"a">>, <<"b">>}

Chunks == {<<>>, <<"x">>, <<"nl">>, <<"x", "nl">>}

Timeouts == {"None", "T"}

RECURSIVE SeqsUpTo(_, _)
SeqsUpTo(S, n) ==
    IF n = 0 THEN {<<>>}
    ELSE LET shorter == SeqsUpTo(S, n - 1)
         IN  shorter \cup {Append(s, x) : s \in {t \in shorter : Len(t) = n - 1}, x \in S}

---------------------------------------------------------------------------
(* Trace nodes and test cases (iospec's In, Out, SimpleTestCase,           *)
(* ErrorTestCase as the code uses them).                                   *)

In(data) == [type |-> "In", data |-> data]

Out(data) == [type |-> "Out", data |-> data]

NoCase == [kind |-> "none", error_type |-> "", nodes |-> <<>>,
           msg |-> "", missing |-> <<>>]

SimpleTestCase(nodes) ==
    [kind |-> "simple", error_type |-> "", nodes |-> nodes,
     msg |-> "", missing |-> <<>>]

ErrorTestCase(error_type, nodes, msg, missing) ==
    [kind |-> "error", error_type |-> error_type, nodes |-> nodes,
     msg |-> msg, missing |-> missing]

(* An exception that leaves run() instead of a test case. *)
Raised(name) ==
    [kind |-> "exception", error_type |-> name, nodes |-> <<>>,
     msg |-> "", missing |-> <<>>]

EndsWithNewline(text) == Len(text) > 0 /\ text[Len(text)] = "nl"

(* A variant that removes every trailing newline of the last Out. *)
RECURSIVE RemoveTrailingNewlines(_)
RemoveTrailingNewlines(nodes) ==
    IF Len(nodes) = 0 THEN nodes
    ELSE LET last == nodes[Len(nodes)]
         IN  IF last.type = "Out" /\ EndsWithNewline(last.data)
             THEN RemoveTrailingNewlines(
                      [nodes EXCEPT ![Len(nodes)] =
                          Out(SubSeq(last.data, 1, Len(last.data) - 1))])
             ELSE nodes

(* util.remove_trailing_newline_from_testcase, on the list of nodes. *)
RemoveTrailingNewline(nodes) ==
    IF Len(nodes) = 0 THEN nodes
    ELSE LET last == nodes[Len(nodes)]
         IN  IF last.type = "Out" /\ EndsWithNewline(last.data)
             THEN [nodes EXCEPT ![Len(nodes)] =
                      Out(SubSeq(last.data, 1, Len(last.data) - 1))]
             ELSE nodes

(* The tail of ExecutionManager.run(): the trailing newline is removed     *)
(* from the case that interact() produced.                                 *)
RunTail(case) == [case EXCEPT !.nodes = RemoveTrailingNewline(case.nodes)]

---------------------------------------------------------------------------
(* Fine-grained external execution: ExecutionManager.run() of a            *)
(* PInteractExecutionManager whose compare_streams is off, so that         *)
(* interact() is run_pinteract().  The external process and its handle     *)
(* (boxed.pinteract.Pinteract) are the environment: what receive()         *)
(* returns, when the process exits and whether a call fails are chosen     *)
(* nondeterministically.                                                   *)

Call(op, data, ok) == [op |-> op, data |-> data, ok |-> ok]

(* A variant that records empty data too. *)
AppendAnyOutput(result, data) == Append(result, Out(data))

(* append_non_empty_output: only non-empty data becomes an Out node. *)
AppendNonEmptyOutput(result, data) ==
    IF data # <<>> THEN Append(result, Out(data)) ELSE result

(* A variant that leaves out the input whose send failed. *)
MissingInputsAfter(inputs, idx) == SubSeq(inputs, idx + 2, Len(inputs))

(* missing = self.inputs[idx:], idx being the 0-based index of the input   *)
(* whose send failed.                                                      *)
MissingInputs(inputs, idx) == SubSeq(inputs, idx + 1, Len(inputs))

(* The test case run_pinteract returns when send() fails on a dead process. *)
EarlyTerminationCase(result, missing) ==
    ErrorTestCase("runtime", result, "unused-inputs", missing)

(* The safeguard branch: send() failed but the process is not dead. *)
InternalErrorCase(result) ==
    ErrorTestCase("runtime", result, "internal-error", <<>>)

(* run() hands back `case`; `shared` tells whether the case holds the      *)
(* nodes of self.interaction (the newline removal then changes the node    *)
(* of that list too).                                                      *)
PIReturn(case, shared) ==
    /\ pi_case' = RunTail(case)
    /\ pi_result' = IF shared THEN RemoveTrailingNewline(pi_result) ELSE pi_result
    /\ pi_pc' = "done"

(* A variant that leaves the loop after the first receive. *)
FinishAfterReceive(sent, inputs) == "finish"

(* for idx, inpt in enumerate(self.inputs): the next input is sent while   *)
(* one is left; past the loop comes process.finish().                      *)
AfterReceive(sent, inputs) == IF sent < Len(inputs) THEN "send" ELSE "finish"

PIStartWith(inputs, timeout) ==
    /\ pi_inputs = inputs
    /\ pi_timeout = timeout
    /\ pi_pc = "init"
    /\ pi_sent = 0
    /\ pi_result = <<>>
    /\ pi_calls = <<>>
    /\ pi_alive = TRUE
    /\ pi_case = NoCase

PIInit ==
    \E inputs \in SeqsUpTo(InputValues, MaxInputs), timeout \in Timeouts :
        PIStartWith(inputs, timeout)

(* The part at rest, for the specifications of the other parts. *)
PIRest == PIStartWith(<<>>, "None")

(* run() passes its guards, start() and interact() create the handle. *)
PIStart ==
    /\ pi_pc = "init"
    /\ pi_pc' = "recv"
    /\ UNCHANGED <<pi_inputs, pi_timeout, pi_sent, pi_result, pi_calls,
                   pi_alive, pi_case>>
    /\ PIFrame

(* The external process exits on its own. *)
PIProcessExit ==
    /\ pi_pc \in {"recv", "send", "finish"}
    /\ pi_alive
    /\ pi_alive' = FALSE
    /\ UNCHANGED <<pi_inputs, pi_timeout, pi_pc, pi_sent, pi_result,
                   pi_calls, pi_case>>
    /\ PIFrame

(* append_non_empty_output(): before the first send and after each send. *)
PIReceive ==
    /\ pi_pc = "recv"
    /\ \E data \in Chunks :
         /\ pi_result' = AppendNonEmptyOutput(pi_result, data)
         /\ pi_calls' = Append(pi_calls, Call("receive", data, TRUE))
    /\ pi_pc' = AfterReceive(pi_sent, pi_inputs)
    /\ UNCHANGED <<pi_inputs, pi_timeout, pi_sent, pi_alive, pi_case>>
    /\ PIFrame

(* receive() runs into the deadline.  The first receive is outside any     *)
(* try block: the TimeoutError reaches run(), which substitutes            *)
(* ErrorTestCase.timeout().  A later one is caught in run_pinteract.       *)
PIReceiveTimeout ==
    /\ pi_pc = "recv"
    /\ pi_timeout # "None"
    /\ pi_calls' = Append(pi_calls, Call("receive", <<>>, FALSE))
    /\ IF pi_sent = 0
       THEN PIReturn(ErrorTestCase("timeout", <<>>, "", <<>>), FALSE)
       ELSE PIReturn(ErrorTestCase("timeout", pi_result, "", <<>>), TRUE)
    /\ UNCHANGED <<pi_inputs, pi_timeout, pi_sent, pi_alive>>
    /\ PIFrame

(* process.send(inpt) succeeds; the In node is appended. *)
PISendOk ==
    /\ pi_pc = "send"
    /\ pi_alive
    /\ LET inpt == pi_inputs[pi_sent + 1]
       IN  /\ pi_result' = Append(pi_result, In(inpt))
           /\ pi_calls' = Append(pi_calls, Call("send", inpt, TRUE))
    /\ pi_sent' = pi_sent + 1
    /\ pi_pc' = "recv"
    /\ UNCHANGED <<pi_inputs, pi_timeout, pi_alive, pi_case>>
    /\ PIFrame

(* process.send(inpt) raises RuntimeError and process.is_dead() holds. *)
PISendDead ==
    /\ pi_pc = "send"
    /\ ~pi_alive
    /\ pi_calls' = Append(pi_calls, Call("send", pi_inputs[pi_sent + 1], FALSE))
    /\ PIReturn(EarlyTerminationCase(pi_result, MissingInputs(pi_inputs, pi_sent)),
                TRUE)
    /\ UNCHANGED <<pi_inputs, pi_timeout, pi_sent, pi_alive>>
    /\ PIFrame

(* process.send(inpt) raises RuntimeError although the process lives. *)
PISendInternalError ==
    /\ pi_pc = "send"
    /\ pi_alive
    /\ pi_calls' = Append(pi_calls, Call("send", pi_inputs[pi_sent + 1], FALSE))
    /\ PIReturn(InternalErrorCase(pi_result), TRUE)
    /\ UNCHANGED <<pi_inputs, pi_timeout, pi_sent, pi_alive>>
    /\ PIFrame

(* process.send(inpt) runs into the deadline of the handle, which was      *)
(* created with timeout=timeout.  TimeoutError is no RuntimeError: it      *)
(* passes the except clause of the loop and reaches run(), which           *)
(* substitutes ErrorTestCase.timeout().                                    *)
PISendTimeout ==
    /\ pi_pc = "send"
    /\ pi_alive
    /\ pi_timeout # "None"
    /\ pi_calls' = Append(pi_calls, Call("send", pi_inputs[pi_sent + 1], FALSE))
    /\ PIReturn(ErrorTestCase("timeout", <<>>, "", <<>>), FALSE)
    /\ UNCHANGED <<pi_inputs, pi_timeout, pi_sent, pi_alive>>
    /\ PIFrame

(* process.finish() after the last input; its diagnostics are asserted     *)
(* to be empty.                                                            *)
PIFinish ==
    /\ pi_pc = "finish"
    /\ \E clean \in BOOLEAN :
         /\ pi_calls' = Append(pi_calls, Call("finish", <<>>, clean))
         /\ IF clean
            THEN PIReturn(SimpleTestCase(pi_result), TRUE)
            ELSE PIReturn(Raised("AssertionError"), FALSE)
    /\ pi_alive' = FALSE
    /\ UNCHANGED <<pi_inputs, pi_timeout, pi_sent>>
    /\ PIFrame

PINext ==
    \/ PIStart
    \/ PIProcessExit
    \/ PIReceive
    \/ PIReceiveTimeout
    \/ PISendOk
    \/ PISendDead
    \/ PISendInternalError
    \/ PISendTimeout
    \/ PIFinish


---------------------------------------------------------------------------
(* The life cycle of ExecutionManagers that share one BuildManager         *)
(* (an IntegratedBuildManager: build() is _build_start, _build_end).       *)
(* A call on a manager is one step; what interact() does is chosen         *)
(* nondeterministically among: it returns a test case, it raises           *)
(* TimeoutError, it raises another exception.                              *)

EMs == 1..NumEM

Durations == 0..MaxDur

NoCall == [op |-> "none", em |-> 0, outcome |-> "", steps |-> {}, msg |-> ""]

(* The build manager classes: IntegratedBuildManager,                      *)
(* InterpretedLanguageBuildManager (an ExternalProgramBuildManager with no *)
(* compile step) and CompiledLanguageBuildManager.                         *)
BMClasses == {"integrated", "interpreted", "compiled"}

(* What the compiler does in compile_files(): exits with status 0, exits   *)
(* with another status after printing diagnostics, exits with another      *)
(* status having printed nothing, or runs past the time limit.             *)
Compilers == {"ok", "nonzero", "silent", "timeout"}

(* str(ex) of the SyntaxError the validator raises. *)
SyntaxDiagnostic == "invalid syntax"

(* ex.output of a failed compiler run that printed diagnostics. *)
CompilerOutput == "compiler output"

BMStartWith(class, ok, compiler) ==
    /\ bm_class = class
    /\ bm_syntax_ok = ok
    /\ bm_compiler = compiler
    /\ bm_is_built = FALSE
    /\ bm_is_closed = FALSE
    /\ bm_hse = FALSE
    /\ bm_exec_dur = 0
    /\ bm_build_path = "None"
    /\ bm_files = {}
    /\ bm_failed = FALSE

BMStart(ok) == BMStartWith("integrated", ok, "ok")

EMStart ==
    /\ em_is_started = [e \in EMs |-> FALSE]
    /\ em_is_closed = [e \in EMs |-> FALSE]
    /\ em_duration = [e \in EMs |-> 0]
    /\ em_interacts = [e \in EMs |-> 0]
    /\ em_call = NoCall
    /\ em_tick = 0

EMInit ==
    /\ \E class \in BMClasses, ok \in BOOLEAN, compiler \in Compilers :
          /\ class # "compiled" => compiler = "ok"
          /\ BMStartWith(class, ok, compiler)
    /\ EMStart

(* The call is recorded, with the build steps it executed and the message  *)
(* of the exception it raised.                                             *)
CalledWith(op, e, outcome, steps, msg) ==
    /\ em_call' = [op |-> op, em |-> e, outcome |-> outcome, steps |-> steps,
                   msg |-> msg]
    /\ em_tick' = 1 - em_tick

Called(op, e, outcome) == CalledWith(op, e, outcome, {}, "")

(* A variant of the guards that forgets the is_started check. *)
RunRefusedUnlessClosed(e) == em_is_closed[e] \/ bm_is_closed

(* The guards of run() and run_interactive(): both raise RuntimeError. *)
RunRefused(e) == em_is_closed[e] \/ bm_is_closed \/ em_is_started[e]

(* What interact() can do, as run() sees it. *)
InteractOutcomes == {"simple", "runtime", "TimeoutError", "exception"}

(* The kind of the case run() returns for an outcome of interact(). *)
RunResult(outcome) == IF outcome = "TimeoutError" THEN "timeout" ELSE outcome

(* A variant of _build_start() in which a rejected source raises nothing. *)
BuildStartSkipped(ok) == "ok"

(* _build_start(): syntax_check(); SyntaxError becomes BuildError(str(ex)). *)
BuildStart(ok) == IF ok THEN "ok" ELSE "BuildError"

(* compile_files(): CalledProcessError becomes BuildError(ex.output); the  *)
(* except TimeoutError clause does not match subprocess.TimeoutExpired,    *)
(* which check_output(timeout=10) raises and which leaves build().         *)
CompileOutcome(compiler) ==
    CASE compiler = "ok" -> [outcome |-> "ok", msg |-> ""]
      [] compiler = "nonzero" -> [outcome |-> "BuildError", msg |-> CompilerOutput]
      [] compiler = "silent" -> [outcome |-> "BuildError", msg |-> ""]
      [] compiler = "timeout" -> [outcome |-> "TimeoutExpired", msg |-> ""]

BuildEnds(outcome, msg, steps, built, path, files) ==
    [outcome |-> outcome, msg |-> msg, steps |-> steps, is_built |-> built,
     build_path |-> path, files |-> files]

(* build() of the manager's class, from its present state: the outcome,    *)
(* the steps executed and the state left.                                  *)
(*   _build_start, then for external managers _build_run (build_tempdir    *)
(*   unless build_path is set, prepare_files, compile_files for compiled   *)
(*   languages), then _build_end.                                          *)
Build ==
    IF BuildStart(bm_syntax_ok) # "ok"
    THEN BuildEnds("BuildError", SyntaxDiagnostic, {"validate"}, bm_is_built,
                   bm_build_path, bm_files)
    ELSE IF bm_class = "integrated"
    THEN BuildEnds("ok", "", {"validate"}, TRUE, bm_build_path, bm_files)
    ELSE
    LET fresh == bm_build_path = "None"
        s1 == IF fresh THEN {"validate", "mkdtemp"} ELSE {"validate"}
        path == IF fresh THEN "tmp" ELSE bm_build_path
    IN  IF "source" \in bm_files
        THEN BuildEnds("RuntimeError", "file already exist", s1, bm_is_built,
                       path, bm_files)
        ELSE IF bm_class = "interpreted"
        THEN BuildEnds("ok", "", s1 \cup {"write"}, TRUE, path,
                       bm_files \cup {"source"})
        ELSE LET c == CompileOutcome(bm_compiler)
             IN  BuildEnds(c.outcome, c.msg, s1 \cup {"write", "compile"},
                           IF c.outcome = "ok" THEN TRUE ELSE bm_is_built,
                           path,
                           IF c.outcome = "ok"
                           THEN bm_files \cup {"source", "executable"}
                           ELSE bm_files \cup {"source"})

(* The state a build() call leaves in the build manager. *)
BuildApplied(r) ==
    /\ bm_is_built' = r.is_built
    /\ bm_build_path' = r.build_path
    /\ bm_files' = r.files
    /\ bm_failed' = (bm_failed \/ (r.outcome # "ok" /\ ~bm_is_built))

(* A variant of start() that builds whether or not the manager is built. *)
NeedsBuildAlways == TRUE

(* start(): `if not self.build_manager.is_built`. *)
NeedsBuild == ~bm_is_built

(* A variant of start() that marks the manager started before building. *)
StartedAfterAnyBuild(outcome) == TRUE

(* start(): is_started is set after build() has returned, so not when it   *)
(* raised.                                                                 *)
StartedAfter(outcome) == outcome = "ok"

(* A variant of start() that leaves the flag as it was. *)
StartLeaves(started) == started

(* start(): self.is_started = True, once build() has returned. *)
StartMarks(started) == TRUE

(* A variant of the bookkeeping that keeps the last duration only. *)
LastDuration(acc, d) == d

(* run(): self.build_manager.execution_duration += self.duration. *)
AddDuration(acc, d) == acc + d

(* BuildManager.build() called directly. *)
BMBuild ==
    /\ BuildApplied(Build)
    /\ CalledWith("build", 0, Build.outcome, Build.steps, Build.msg)
    /\ UNCHANGED <<bm_class, bm_syntax_ok, bm_compiler, bm_is_closed, bm_hse,
                   bm_exec_dur, em_is_started, em_is_closed, em_duration,
                   em_interacts>>
    /\ EMFrame

(* A variant of close() that flips the flag. *)
CloseToggles(closed) == ~closed

(* close(): self.is_closed = True, whatever it was. *)
CloseMarks(closed) == TRUE

(* BuildManager.close(). *)
BMClose ==
    /\ bm_is_closed' = CloseMarks(bm_is_closed)
    /\ Called("close", 0, "ok")
    /\ UNCHANGED <<bm_class, bm_syntax_ok, bm_compiler, bm_is_built, bm_hse,
                   bm_exec_dur, bm_build_path, bm_files, bm_failed,
                   em_is_started, em_is_closed, em_duration, em_interacts>>
    /\ EMFrame

(* run() or run_interactive() refused by the guards. *)
EMRunRefused(e, op) ==
    /\ RunRefused(e)
    /\ Called(op, e, "RuntimeError")
    /\ UNCHANGED <<bmVars, em_is_started, em_is_closed,
                   em_duration, em_interacts>>
    /\ EMFrame

(* start() has to build and build() raises: the exception leaves run(). *)
EMRunBuildFails(e, op) ==
    /\ ~RunRefused(e)
    /\ NeedsBuild
    /\ Build.outcome # "ok"
    /\ BuildApplied(Build)
    /\ em_is_started' = [em_is_started EXCEPT ![e] = StartedAfter(Build.outcome)]
    /\ CalledWith(op, e, Build.outcome, Build.steps, Build.msg)
    /\ UNCHANGED <<bm_class, bm_syntax_ok, bm_compiler, bm_is_closed, bm_hse,
                   bm_exec_dur, em_is_closed, em_duration, em_interacts>>
    /\ EMFrame

(* The build part of start() when nothing is raised. *)
StartBuilds ==
    IF NeedsBuild
    THEN Build.outcome = "ok" /\ BuildApplied(Build)
    ELSE UNCHANGED <<bm_is_built, bm_build_path, bm_files, bm_failed>>

(* The build steps start() executes. *)
StartSteps == IF NeedsBuild THEN Build.steps ELSE {}

(* run(): start(), interact(), and unless interact() raised something      *)
(* other than TimeoutError, end() and the duration bookkeeping.            *)
EMRun(e) ==
    /\ ~RunRefused(e)
    /\ em_is_started' = [em_is_started EXCEPT ![e] = StartMarks(@)]
    /\ em_interacts' = [em_interacts EXCEPT ![e] = @ + 1]
    /\ StartBuilds
    /\ \E outcome \in InteractOutcomes :
         /\ CalledWith("run", e, RunResult(outcome), StartSteps, "")
         /\ IF outcome = "exception"
            THEN UNCHANGED <<em_is_closed, em_duration, bm_hse, bm_exec_dur>>
            ELSE \E d \in Durations :
                   /\ em_is_closed' = [em_is_closed EXCEPT ![e] = TRUE]
                   /\ bm_hse' = TRUE
                   /\ em_duration' = [em_duration EXCEPT ![e] = d]
                   /\ bm_exec_dur' = AddDuration(bm_exec_dur, d)
    /\ UNCHANGED <<bm_class, bm_syntax_ok, bm_compiler, bm_is_closed>>
    /\ EMFrame

(* run_interactive(): start(), interact_with_user(), end(). *)
EMRunInteractive(e) ==
    /\ ~RunRefused(e)
    /\ em_is_started' = [em_is_started EXCEPT ![e] = StartMarks(@)]
    /\ StartBuilds
    /\ \E raised \in BOOLEAN :
         IF raised
         THEN /\ CalledWith("run_interactive", e, "exception", StartSteps, "")
              /\ UNCHANGED <<em_is_closed, bm_hse>>
         ELSE /\ CalledWith("run_interactive", e, "ok", StartSteps, "")
              /\ em_is_closed' = [em_is_closed EXCEPT ![e] = TRUE]
              /\ bm_hse' = TRUE
    /\ UNCHANGED <<bm_class, bm_syntax_ok, bm_compiler, bm_is_closed,
                   bm_exec_dur, em_duration, em_interacts>>
    /\ EMFrame

EMNext ==
    \/ BMBuild
    \/ BMClose
    \/ \E e \in EMs : EMRunRefused(e, "run")
    \/ \E e \in EMs : EMRunRefused(e, "run_interactive")
    \/ \E e \in EMs : EMRunBuildFails(e, "run")
    \/ \E e \in EMs : EMRunBuildFails(e, "run_interactive")
    \/ \E e \in EMs : EMRun(e)
    \/ \E e \in EMs : EMRunInteractive(e)

---------------------------------------------------------------------------
(* In-process execution: IntegratedExecutionManager.interact() as run()    *)
(* calls it.  The user program is a sequence of statements; the threads    *)
(* and processes take their steps one at a time:                           *)
(*   - the process that called run() (the "caller"),                       *)
(*   - the child process spawned when the manager is not sandboxed,        *)
(*   - in the executing process, the thread in interact_with_timeout()     *)
(*     and, under a timeout, the worker thread util.timeout() starts for   *)
(*     wrapped_exec().                                                     *)

(* How the process that calls run() came to be, from the public functions: *)
(*   "run_sandbox":   run(sandbox=True): run_from_lang inside the sandbox, *)
(*                    build manager made with is_sandboxed=True;           *)
(*   "grade_sandbox": grade(sandbox=True): grade_from_lang inside the      *)
(*                    sandbox, build manager made without is_sandboxed;    *)
(*   "direct":        run / grade with sandbox=False, in the process of    *)
(*                    the caller, is_sandboxed=False.                      *)
Entries == {"run_sandbox", "grade_sandbox", "direct"}

(* build_manager.is_sandboxed of the manager that is run. *)
Sandboxed(entry) == entry = "run_sandbox"

(* Whether the process calling run() is the sandbox's isolated child. *)
Isolated(entry) == entry \in {"run_sandbox", "grade_sandbox"}

(* The statements of a user program:                                       *)
(*   print: print(...), println: print() with no argument,                 *)
(*   input: input(), raise: an uncaught Exception,                         *)
(*   exit: raise SystemExit (sys.exit()), loop: an infinite loop,          *)
(*   crash: the interpreter process dies (os._exit, a fatal signal).       *)
Stmts == {"print", "println", "input", "raise", "exit", "loop", "crash"}

(* What one print(...) call writes. *)
Printed == <<"x", "nl">>

(* What print() with no argument writes. *)
PrintedEmpty == <<"nl">>

NoFail == [kind |-> "none", nodes |-> <<>>]

(* A variant of the branch of interact() that runs in the calling process  *)
(* when the manager is not sandboxed.                                      *)
RunsInCallerInverted(sandboxed) == ~sandboxed

(* interact(): `if self.is_sandboxed` runs in the calling process, the     *)
(* else branch spawns the child.                                           *)
RunsInCaller(sandboxed) == sandboxed

(* The process in which wrapped_exec() runs. *)
ExecProc == IF RunsInCaller(Sandboxed(it_entry)) THEN "caller" ELSE "child"

(* `if queue:` on a multiprocessing.Queue object: the object defines       *)
(* neither __bool__ nor __len__, so it is true whatever it holds.          *)
QueueIsTrue(queue) == TRUE

(* A variant that pops from self.inputs as given, its last element first. *)
NextInputFromEnd(inputs, consumed) == inputs[Len(inputs) - consumed]

(* consumed_inputs = list(reversed(self.inputs)); consumed_inputs.pop():   *)
(* the last element of the reversed list, which is the first input not     *)
(* handed out so far.                                                      *)
NextInput(inputs, consumed) == inputs[consumed + 1]

(* A variant that starts a node for every print(). *)
PrintApart(interaction, data) == Append(interaction, Out(data))

(* The instrumented print(): output joins the last node if it is an Out. *)
PrintTo(interaction, data) ==
    IF Len(interaction) > 0 /\ interaction[Len(interaction)].type = "Out"
    THEN [interaction EXCEPT ![Len(interaction)] = Out(@.data \o data)]
    ELSE Append(interaction, Out(data))

ITStartWith(entry, timeout, prog, inputs) ==
    /\ it_entry = entry
    /\ it_timeout = timeout
    /\ it_prog = prog
    /\ it_inputs = inputs
    /\ it_par = "idle"
    /\ it_child = "none"
    /\ it_queue = <<>>
    /\ it_main = "idle"
    /\ it_exec = "none"
    /\ it_ip = 1
    /\ it_consumed = 0
    /\ it_interaction = <<>>
    /\ it_builtins = [p \in {"caller", "child"} |-> "orig"]
    /\ it_fail = NoFail
    /\ it_execResult = NoCase
    /\ it_result = NoCase
    /\ it_out = NoCase

ITInit ==
    \E entry \in Entries, timeout \in Timeouts,
       prog \in SeqsUpTo(Stmts, MaxProg),
       inputs \in SeqsUpTo(InputValues, MaxInputs) :
        ITStartWith(entry, timeout, prog, inputs)

ITRest == ITStartWith("direct", "None", <<>>, <<>>)

(* The executing process is alive (an abandoned worker thread lives on in  *)
(* the caller's process; a child's threads end with the child).            *)
ExecAlive ==
    IF ExecProc = "caller"
    THEN it_par \in {"running", "returned", "raised"}
    ELSE it_child = "running"

(* interact_with_timeout() has its result: it returns it to interact()     *)
(* and run() (in the caller), or puts it on the queue and the child ends.  *)
HandBack(result) ==
    /\ it_result' = result
    /\ it_main' = "done"
    /\ IF ExecProc = "caller"
       THEN /\ it_out' = RunTail(result)
            /\ it_par' = "returned"
            /\ UNCHANGED <<it_queue, it_child>>
       ELSE /\ it_queue' = Append(it_queue, result)
            /\ it_child' = "exited"
            /\ UNCHANGED <<it_out, it_par>>

(* An exception leaves interact_with_timeout(): in the caller it leaves    *)
(* run() too; a child ends with nothing put on the queue.                  *)
MainRaises(name) ==
    /\ it_main' = "raised"
    /\ IF ExecProc = "caller"
       THEN /\ it_out' = Raised(name)
            /\ it_par' = "raised"
            /\ UNCHANGED it_child
       ELSE /\ it_child' = "exited"
            /\ UNCHANGED <<it_out, it_par>>
    /\ UNCHANGED <<it_result, it_queue>>

(* wrapped_exec() leaves the `with patched_builtins` block: restore(). *)
ExecEnds(pc, result) ==
    /\ it_exec' = pc
    /\ it_execResult' = result
    /\ it_builtins' = [it_builtins EXCEPT ![ExecProc] = "orig"]

(* run() reaches interact(): either interact_with_timeout() starts in the  *)
(* calling process, or the child is spawned and starts it.                 *)
ITCall ==
    /\ it_par = "idle"
    /\ IF RunsInCaller(Sandboxed(it_entry))
       THEN it_par' = "running" /\ UNCHANGED it_child
       ELSE it_par' = "joining" /\ it_child' = "running"
    /\ it_main' = IF it_timeout = "None" THEN "exec" ELSE "join"
    /\ it_exec' = "start"
    /\ UNCHANGED <<it_entry, it_timeout, it_prog, it_inputs, it_queue, it_ip,
                   it_consumed, it_interaction, it_builtins, it_fail,
                   it_execResult, it_result, it_out>>
    /\ ITFrame

(* wrapped_exec() enters patched_builtins(self.builtins()): update(). *)
ITPatch ==
    /\ ExecAlive
    /\ it_exec = "start"
    /\ it_exec' = "running"
    /\ it_builtins' = [it_builtins EXCEPT ![ExecProc] = "patched"]
    /\ UNCHANGED <<it_entry, it_timeout, it_prog, it_inputs, it_par, it_child,
                   it_queue, it_main, it_ip, it_consumed, it_interaction,
                   it_fail, it_execResult, it_result, it_out>>
    /\ ITFrame

AtStmt(stmt) ==
    /\ ExecAlive
    /\ it_exec = "running"
    /\ it_ip <= Len(it_prog)
    /\ it_prog[it_ip] = stmt

(* The program calls print(). *)
ITPrint ==
    /\ \E stmt \in {"print", "println"} :
          /\ AtStmt(stmt)
          /\ it_interaction' = PrintTo(it_interaction,
                                       IF stmt = "print" THEN Printed
                                       ELSE PrintedEmpty)
    /\ it_ip' = it_ip + 1
    /\ UNCHANGED <<it_entry, it_timeout, it_prog, it_inputs, it_par, it_child,
                   it_queue, it_main, it_exec, it_consumed, it_builtins,
                   it_fail, it_execResult, it_result, it_out>>
    /\ ITFrame

(* The program calls input() and an input is left. *)
ITInput ==
    /\ AtStmt("input")
    /\ it_consumed < Len(it_inputs)
    /\ it_interaction' = Append(it_interaction,
                                In(NextInput(it_inputs, it_consumed)))
    /\ it_consumed' = it_consumed + 1
    /\ it_ip' = it_ip + 1
    /\ UNCHANGED <<it_entry, it_timeout, it_prog, it_inputs, it_par, it_child,
                   it_queue, it_main, it_exec, it_builtins, it_fail,
                   it_execResult, it_result, it_out>>
    /\ ITFrame

(* The program calls input() with no input left (MissingInputError), or    *)
(* raises an Exception of its own: `except Exception` in wrapped_exec().   *)
ITRaise ==
    /\ \/ AtStmt("input") /\ it_consumed >= Len(it_inputs)
               /\ it_fail' = [kind |-> "MissingInputError", nodes |-> it_interaction]
       \/ AtStmt("raise")
               /\ it_fail' = [kind |-> "Exception", nodes |-> it_interaction]
    /\ ExecEnds("returned", ErrorTestCase("runtime", it_interaction, "traceback", <<>>))
    /\ UNCHANGED <<it_entry, it_timeout, it_prog, it_inputs, it_par, it_child,
                   it_queue, it_main, it_ip, it_consumed, it_interaction,
                   it_result, it_out>>
    /\ ITFrame

(* The program raises SystemExit: not an Exception, so it passes the       *)
(* except clause of wrapped_exec(); the finally of patched_builtins runs.  *)
ITExit ==
    /\ AtStmt("exit")
    /\ it_fail' = [kind |-> "SystemExit", nodes |-> it_interaction]
    /\ ExecEnds("propagated", NoCase)
    /\ UNCHANGED <<it_entry, it_timeout, it_prog, it_inputs, it_par, it_child,
                   it_queue, it_main, it_ip, it_consumed, it_interaction,
                   it_result, it_out>>
    /\ ITFrame

(* The program kills the process it runs in. *)
ITCrash ==
    /\ AtStmt("crash")
    /\ IF ExecProc = "caller"
       THEN it_par' = "dead" /\ UNCHANGED it_child
       ELSE it_child' = "exited" /\ UNCHANGED it_par
    /\ UNCHANGED <<it_entry, it_timeout, it_prog, it_inputs, it_queue, it_main,
                   it_exec, it_ip, it_consumed, it_interaction, it_builtins,
                   it_fail, it_execResult, it_result, it_out>>
    /\ ITFrame

(* The program ends: SimpleTestCase(self.interaction). *)
ITEnd ==
    /\ ExecAlive
    /\ it_exec = "running"
    /\ it_ip > Len(it_prog)
    /\ ExecEnds("returned", SimpleTestCase(it_interaction))
    /\ UNCHANGED <<it_entry, it_timeout, it_prog, it_inputs, it_par, it_child,
                   it_queue, it_main, it_ip, it_consumed, it_interaction,
                   it_fail, it_result, it_out>>
    /\ ITFrame

(* No timeout: wrapped_exec() was called directly and has returned. *)
ITMainResult ==
    /\ ExecAlive
    /\ it_main = "exec"
    /\ it_exec = "returned"
    /\ HandBack(it_execResult)
    /\ UNCHANGED <<it_entry, it_timeout, it_prog, it_inputs, it_exec, it_ip,
                   it_consumed, it_interaction, it_builtins, it_fail,
                   it_execResult>>
    /\ ITFrame

(* No timeout: SystemExit leaves wrapped_exec() and the caller of it. *)
ITMainExit ==
    /\ ExecAlive
    /\ it_main = "exec"
    /\ it_exec = "propagated"
    /\ MainRaises("SystemExit")
    /\ UNCHANGED <<it_entry, it_timeout, it_prog, it_inputs, it_exec, it_ip,
                   it_consumed, it_interaction, it_builtins, it_fail,
                   it_execResult>>
    /\ ITFrame

(* util.timeout(): thread.join(timeout) ends with the worker still alive:  *)
(* TimeoutError, which interact_with_timeout() turns into                  *)
(* ErrorTestCase.timeout(self.interaction).  The worker is left running.   *)
ITTimeout ==
    /\ ExecAlive
    /\ it_main = "join"
    /\ it_exec \in {"start", "running"}
    /\ HandBack(ErrorTestCase("timeout", it_interaction, "", <<>>))
    /\ UNCHANGED <<it_entry, it_timeout, it_prog, it_inputs, it_exec, it_ip,
                   it_consumed, it_interaction, it_builtins, it_fail,
                   it_execResult>>
    /\ ITFrame

(* util.timeout(): the worker has ended with a result: result.pop(). *)
ITJoinResult ==
    /\ ExecAlive
    /\ it_main = "join"
    /\ it_exec = "returned"
    /\ HandBack(it_execResult)
    /\ UNCHANGED <<it_entry, it_timeout, it_prog, it_inputs, it_exec, it_ip,
                   it_consumed, it_interaction, it_builtins, it_fail,
                   it_execResult>>
    /\ ITFrame

(* util.timeout(): the worker has ended by SystemExit, which target() does *)
(* not catch: result and exceptions are both empty and exceptions.pop()    *)
(* raises IndexError.                                                      *)
ITJoinIndexError ==
    /\ ExecAlive
    /\ it_main = "join"
    /\ it_exec = "propagated"
    /\ MainRaises("IndexError")
    /\ UNCHANGED <<it_entry, it_timeout, it_prog, it_inputs, it_exec, it_ip,
                   it_consumed, it_interaction, it_builtins, it_fail,
                   it_execResult>>
    /\ ITFrame

(* The parent's process.join(timeout) returns: the child has ended, or     *)
(* the timeout has passed.                                                 *)
ITParJoin ==
    /\ it_par = "joining"
    /\ it_child = "exited" \/ it_timeout # "None"
    /\ it_par' = "getting"
    /\ UNCHANGED <<it_entry, it_timeout, it_prog, it_inputs, it_child,
                   it_queue, it_main, it_exec, it_ip, it_consumed,
                   it_interaction, it_builtins, it_fail, it_execResult,
                   it_result, it_out>>
    /\ ITFrame

(* The parent's `if queue: result, time = queue.get()`: get() takes the    *)
(* result once there is one and waits as long as there is none.            *)
ITParGet ==
    /\ it_par = "getting"
    /\ IF QueueIsTrue(it_queue)
       THEN /\ it_queue # <<>>
            /\ it_out' = RunTail(Head(it_queue))
            /\ it_queue' = Tail(it_queue)
            /\ it_par' = "returned"
       ELSE /\ it_out' = Raised("RuntimeError")
            /\ it_par' = "raised"
            /\ UNCHANGED it_queue
    /\ UNCHANGED <<it_entry, it_timeout, it_prog, it_inputs, it_child, it_main,
                   it_exec, it_ip, it_consumed, it_interaction, it_builtins,
                   it_fail, it_execResult, it_result>>
    /\ ITFrame

ITNext ==
    \/ ITCall
    \/ ITPatch
    \/ ITPrint
    \/ ITInput
    \/ ITRaise
    \/ ITExit
    \/ ITCrash
    \/ ITEnd
    \/ ITMainResult
    \/ ITMainExit
    \/ ITTimeout
    \/ ITJoinResult
    \/ ITJoinIndexError
    \/ ITParJoin
    \/ ITParGet

---------------------------------------------------------------------------
(* The public functions: run_from_manager() and grade_from_manager(), the  *)
(* bodies of run() and grade().  One execution of the program on one input *)
(* set is summarised by its outcome.                                       *)

Funcs == {"run", "grade"}

(* fine-grained external, stream-compare external, in-process *)
Strategies == {"pinteract", "popen", "integrated"}

(* What the program does on an input set: ends normally, ends with an      *)
(* error of its own, or never ends.                                        *)
Kinds == {"terminates", "fails", "loops"}

(* build(): succeeds, or raises BuildError with this message. *)
Builds == {"ok", "invalid syntax", ""}

(* The grades get_feedback() gives (iospec.feedback, an external library). *)
Grades == {0, 1}

NoFeedback == [grade |-> -1, class |-> "none"]

(* `if timeout:` *)
TimeoutGiven(timeout) == timeout # "None"

(* ExecutionManager.run(timeout=deadline) on a built manager: the class of *)
(* the case it returns, the exception that leaves it, or "hang" when it    *)
(* never returns.                                                          *)
RunOutcome(strategy, kind, deadline) ==
    CASE kind = "terminates" -> "simple"
      [] kind = "fails" -> "runtime"
      [] kind = "loops" /\ deadline = "None" -> "hang"
      [] kind = "loops" /\ deadline # "None" ->
            IF strategy = "popen" THEN "TimeoutExpired" ELSE "timeout"

IsCaseClass(outcome) == outcome \in {"simple", "runtime", "timeout"}

(* One produced test case: its classification, with the program's          *)
(* behaviour on that input set and the deadline run() was given.           *)
FnCase(class, kind, deadline) ==
    [class |-> class, kind |-> kind, deadline |-> deadline]

FNStartWith(func, timeout, raises, fast, strategy, build, kinds) ==
    /\ fn_func = func
    /\ fn_timeout = timeout
    /\ fn_raises = raises
    /\ fn_fast = fast
    /\ fn_strategy = strategy
    /\ fn_build = build
    /\ fn_kinds = kinds
    /\ fn_pc = "build"
    /\ fn_idx = 0
    /\ fn_cases = <<>>
    /\ fn_error_message = "None"
    /\ fn_feedback = NoFeedback
    /\ fn_value = 1

FNInit ==
    \E func \in Funcs, timeout \in Timeouts, raises \in BOOLEAN,
       fast \in BOOLEAN, strategy \in Strategies, build \in Builds,
       kinds \in SeqsUpTo(Kinds, MaxSets) \ {<<>>} :
        FNStartWith(func, timeout, raises, fast, strategy, build, kinds)

FNRest == FNStartWith("run", "None", FALSE, FALSE, "pinteract", "ok", <<"terminates">>)

FnConfig == <<fn_func, fn_timeout, fn_raises, fn_fast, fn_strategy, fn_build,
              fn_kinds>>

(* build_manager.build() succeeds. *)
FnBuildOk ==
    /\ fn_pc = "build"
    /\ fn_build = "ok"
    /\ fn_pc' = "loop"
    /\ UNCHANGED <<FnConfig, fn_idx, fn_cases, fn_error_message, fn_feedback,
                   fn_value>>
    /\ FNFrame

(* build_manager.build() raises BuildError: re-raised when raises is set;  *)
(* otherwise run_from_manager returns IoSpec([ErrorTestCase.build(...)])   *)
(* and grade_from_manager keeps the message.                               *)
FnBuildFails ==
    /\ fn_pc = "build"
    /\ fn_build # "ok"
    /\ IF fn_raises
       THEN /\ fn_pc' = "raised"
            /\ UNCHANGED <<fn_cases, fn_error_message>>
       ELSE IF fn_func = "run"
       THEN /\ fn_pc' = "returned"
            /\ fn_cases' = <<FnCase("build", "none", "no-run")>>
            /\ UNCHANGED fn_error_message
       ELSE /\ fn_pc' = "loop"
            /\ fn_error_message' = fn_build
            /\ UNCHANGED fn_cases
    /\ UNCHANGED <<FnConfig, fn_idx, fn_feedback, fn_value>>
    /\ FNFrame

(* run_from_manager, one input set: `if timeout: ctrl.run()` with no       *)
(* timeout passed on, `else: ctrl.run_with_timeout(timeout)`, a method no  *)
(* execution manager has (AttributeError).  Exceptions are re-raised when  *)
(* raises is set and become error_test_case(...) otherwise.                *)
FnRunCase ==
    /\ fn_func = "run"
    /\ fn_pc = "loop"
    /\ fn_idx < Len(fn_kinds)
    /\ LET kind == fn_kinds[fn_idx + 1]
           outcome == IF TimeoutGiven(fn_timeout)
                      THEN RunOutcome(fn_strategy, kind, "None")
                      ELSE "AttributeError"
           deadline == IF TimeoutGiven(fn_timeout) THEN "None" ELSE "no-run"
       IN  IF outcome = "hang"
           THEN fn_pc' = "blocked" /\ UNCHANGED <<fn_idx, fn_cases>>
           ELSE IF IsCaseClass(outcome)
           THEN /\ fn_cases' = Append(fn_cases, FnCase(outcome, kind, deadline))
                /\ fn_idx' = fn_idx + 1
                /\ UNCHANGED fn_pc
           ELSE IF fn_raises
           THEN fn_pc' = "raised" /\ UNCHANGED <<fn_idx, fn_cases>>
           ELSE /\ fn_cases' = Append(fn_cases, FnCase("runtime", kind, deadline))
                /\ fn_idx' = fn_idx + 1
                /\ UNCHANGED fn_pc
    /\ UNCHANGED <<FnConfig, fn_error_message, fn_feedback, fn_value>>
    /\ FNFrame

(* grade_from_manager's comparison with the worst result so far; a grade   *)
(* of zero under fast ends the loop.                                       *)
GradeStep(case, g) ==
    /\ fn_cases' = Append(fn_cases, case)
    /\ fn_feedback' = IF fn_feedback = NoFeedback \/ g < fn_value
                      THEN [grade |-> g, class |-> case.class]
                      ELSE fn_feedback
    /\ fn_value' = IF g < fn_value THEN g ELSE fn_value
    /\ fn_idx' = IF g < fn_value /\ g = 0 /\ fn_fast
                 THEN Len(fn_kinds)
                 ELSE fn_idx + 1
    /\ UNCHANGED fn_pc

(* grade_from_manager, one answer key: a kept build message gives a build  *)
(* error case; otherwise `if timeout: ctrl.run_with_timeout(timeout)`      *)
(* (AttributeError), `else: case = ctrl.run()`; every Exception becomes    *)
(* error_test_case(...).  run() on a manager whose build fails raises      *)
(* BuildError from start().                                                *)
FnGradeCase ==
    /\ fn_func = "grade"
    /\ fn_pc = "loop"
    /\ fn_idx < Len(fn_kinds)
    /\ LET kind == fn_kinds[fn_idx + 1]
           outcome == IF fn_error_message \notin {"None", ""} THEN "build"
                      ELSE IF TimeoutGiven(fn_timeout) THEN "AttributeError"
                      ELSE IF fn_build # "ok" THEN "BuildError"
                      ELSE RunOutcome(fn_strategy, kind, "None")
           deadline == IF outcome \in {"build", "AttributeError", "BuildError"}
                       THEN "no-run" ELSE "None"
       IN  IF outcome = "hang"
           THEN /\ fn_pc' = "blocked"
                /\ UNCHANGED <<fn_idx, fn_cases, fn_feedback, fn_value>>
           ELSE \E g \in Grades :
                  GradeStep(FnCase(IF IsCaseClass(outcome) \/ outcome = "build"
                                   THEN outcome ELSE "runtime",
                                   kind, deadline), g)
    /\ UNCHANGED <<FnConfig, fn_error_message>>
    /\ FNFrame

(* The loop is over: return IoSpec(data) / return feedback. *)
FnReturn ==
    /\ fn_pc = "loop"
    /\ fn_idx >= Len(fn_kinds)
    /\ fn_pc' = "returned"
    /\ UNCHANGED <<FnConfig, fn_idx, fn_cases, fn_error_message, fn_feedback,
                   fn_value>>
    /\ FNFrame

FNNext ==
    \/ FnBuildOk
    \/ FnBuildFails
    \/ FnRunCase
    \/ FnGradeCase
    \/ FnReturn

---------------------------------------------------------------------------
(* ExternalProgramBuildManager.write(path, data).  A path is the sequence  *)
(* of its components; the file system holds the directories Dirs.          *)

(* Path components: the two directories on the way to the build directory, *)
(* the parent reference and a file name.                                   *)
Names == {"t", "b", "..", "f"}

(* The temporary build directory, /t/b. *)
BuildDir == <<"t", "b">>

(* The directories that exist. *)
Dirs == {<<>>, <<"t">>, BuildDir}

IsPrefix(p, q) == Len(p) <= Len(q) /\ SubSeq(q, 1, Len(p)) = p

(* The location a path names once its '..' components are resolved. *)
RECURSIVE Resolve(_, _)
Resolve(cur, path) ==
    IF path = <<>> THEN cur
    ELSE IF Head(path) = ".."
    THEN Resolve(IF cur = <<>> THEN cur ELSE SubSeq(cur, 1, Len(cur) - 1),
                 Tail(path))
    ELSE Resolve(Append(cur, Head(path)), Tail(path))

(* A location strictly inside the build directory. *)
InsideBuildDir(loc) == IsPrefix(BuildDir, loc) /\ Len(loc) > Len(BuildDir)

(* path.startswith(self.build_path + os.path.sep): a comparison of the     *)
(* text of the path, '..' components not resolved.                         *)
StartsWithBuildPath(absolute, path) ==
    absolute /\ IsPrefix(BuildDir, path) /\ Len(path) > Len(BuildDir)

(* open(full_path, 'w'): the operating system walks the components; every  *)
(* component but the last has to lead to an existing directory, the last   *)
(* names the file.  Gives the location written, or the error.              *)
RECURSIVE OpenForWrite(_, _)
OpenForWrite(cur, path) ==
    LET step == Resolve(cur, <<Head(path)>>)
    IN  IF Len(path) = 1
        THEN IF Head(path) = ".." \/ step \in Dirs
             THEN [error |-> "IsADirectoryError", loc |-> <<>>]
             ELSE [error |-> "", loc |-> step]
        ELSE IF step \in Dirs
        THEN OpenForWrite(step, Tail(path))
        ELSE [error |-> "FileNotFoundError", loc |-> <<>>]

WRStartWith(build_path, absolute, path) ==
    /\ wr_build_path = build_path
    /\ wr_absolute = absolute
    /\ wr_path = path
    /\ wr_outcome = "none"
    /\ wr_written = {}

WRInit ==
    \E build_path \in {"None", "set"}, absolute \in BOOLEAN,
       path \in SeqsUpTo(Names, MaxPath) \ {<<>>} :
        WRStartWith(build_path, absolute, path)

WRRest == WRStartWith("None", TRUE, <<"f">>)

(* write(): RuntimeError with no build directory, PermissionError when the *)
(* text of the path does not start with the build path; otherwise          *)
(* full_path = os.path.join(self.build_path, path), which is the absolute  *)
(* path itself, is opened and written.                                     *)
WRWrite ==
    /\ wr_outcome = "none"
    /\ IF wr_build_path = "None"
       THEN wr_outcome' = "RuntimeError" /\ UNCHANGED wr_written
       ELSE IF ~StartsWithBuildPath(wr_absolute, wr_path)
       THEN wr_outcome' = "PermissionError" /\ UNCHANGED wr_written
       ELSE LET f == OpenForWrite(<<>>, wr_path)
            IN  IF f.error # ""
                THEN wr_outcome' = f.error /\ UNCHANGED wr_written
                ELSE wr_outcome' = "ok" /\ wr_written' = {f.loc}
    /\ UNCHANGED <<wr_build_path, wr_absolute, wr_path>>
    /\ WRFrame

WRNext == WRWrite

---------------------------------------------------------------------------
(* The mode of an external run: PInteractExecutionManager.interact()       *)
(* chooses between run_popen (stream-compare) and run_pinteract            *)
(* (fine-grained) from the compare_streams property.                       *)

Flags == {"None", "True", "False"}

(* PInteractExecutionManager.default_compare_streams; no language's        *)
(* execution manager overrides it.                                         *)
DefaultCompareStreams == "True"

(* ExecutionManager.compare_streams: the flag of the build manager, the    *)
(* class default when the flag is None.                                    *)
CompareStreams(flag) == IF flag = "None" THEN DefaultCompareStreams ELSE flag

(* if self.compare_streams: run_popen(...) else: run_pinteract(...) *)
ModeOf(flag) == IF CompareStreams(flag) = "True" THEN "popen" ELSE "pinteract"

(* result[:-1] when result.endswith('\n') *)
StripNewline(text) ==
    IF EndsWithNewline(text) THEN SubSeq(text, 1, Len(text) - 1) ELSE text

(* atoms = [In(x) for x in self.inputs]; atoms.append(Out(result)) *)
PopenAtoms(inputs, stdout) ==
    Append([i \in 1..Len(inputs) |-> In(inputs[i])], Out(StripNewline(stdout)))

(* self.interaction of run_pinteract after the first receive and k sends,  *)
(* each followed by its receive; outs[i] is what the i-th receive read.    *)
RECURSIVE FineGrained(_, _, _)
FineGrained(inputs, outs, k) ==
    IF k = 0 THEN AppendNonEmptyOutput(<<>>, outs[1])
    ELSE AppendNonEmptyOutput(
             Append(FineGrained(inputs, outs, k - 1), In(inputs[k])),
             outs[k + 1])

MDStartWith(flag, inputs, timeout) ==
    /\ md_flag = flag
    /\ md_inputs = inputs
    /\ md_timeout = timeout
    /\ md_pc = "init"
    /\ md_mode = "-"
    /\ md_case = NoCase

MDInit ==
    \E flag \in Flags, inputs \in SeqsUpTo(InputValues, MaxInputs),
       timeout \in Timeouts :
        MDStartWith(flag, inputs, timeout)

(* The part at rest, for the specifications of the other parts. *)
MDRest == MDStartWith("None", <<>>, "None")

(* interact(): the choice of the runner. *)
MDInteract ==
    /\ md_pc = "init"
    /\ md_mode' = ModeOf(md_flag)
    /\ md_pc' = ModeOf(md_flag)
    /\ UNCHANGED <<md_flag, md_inputs, md_timeout, md_case>>
    /\ MDFrame

(* run_popen(): the inputs joined by newlines are fed at once, stdout is   *)
(* read to its end; communicate() raises TimeoutExpired at the deadline.   *)
MDRunPopen ==
    /\ md_pc = "popen"
    /\ \/ \E stdout \in Chunks, exit0 \in BOOLEAN :
            md_case' = IF exit0
                       THEN SimpleTestCase(PopenAtoms(md_inputs, stdout))
                       ELSE ErrorTestCase("runtime",
                                          PopenAtoms(md_inputs, stdout), "", <<>>)
       \/ /\ md_timeout # "None"
          /\ md_case' = Raised("TimeoutExpired")
    /\ md_pc' = "done"
    /\ UNCHANGED <<md_flag, md_inputs, md_timeout, md_mode>>
    /\ MDFrame

(* run_pinteract(), from its first receive to its return: k inputs are     *)
(* sent successfully; then the inputs are used up and finish() follows,    *)
(* or the next send fails, or a receive runs into the deadline.            *)
MDRunPinteract ==
    /\ md_pc = "pinteract"
    /\ \E k \in 0..Len(md_inputs), outs \in [1..(Len(md_inputs) + 1) -> Chunks] :
         LET result == FineGrained(md_inputs, outs, k)
             sent == IF k = 0 THEN <<>>
                     ELSE Append(FineGrained(md_inputs, outs, k - 1),
                                 In(md_inputs[k]))
         IN  \/ /\ k = Len(md_inputs)
                /\ md_case' \in {SimpleTestCase(result), Raised("AssertionError")}
             \/ /\ k < Len(md_inputs)
                /\ md_case' \in {EarlyTerminationCase(result,
                                                      MissingInputs(md_inputs, k)),
                                 InternalErrorCase(result)}
             \/ /\ md_timeout # "None"
                /\ md_case' = IF k = 0 THEN Raised("TimeoutError")
                              ELSE ErrorTestCase("timeout", sent, "", <<>>)
    /\ md_pc' = "done"
    /\ UNCHANGED <<md_flag, md_inputs, md_timeout, md_mode>>
    /\ MDFrame

MDNext ==
    \/ MDInteract
    \/ MDRunPopen
    \/ MDRunPinteract

---------------------------------------------------------------------------
(* The LanguageRegistry: register(), the resolution of extensions and      *)
(* file names, the lookup of manager classes.  Strings are sequences of    *)
(* characters; a dict is a function whose DOMAIN is its set of keys.       *)
(* A behaviour is one call on a registry that earlier register() calls     *)
(* left in some state.                                                     *)

(* Language ids; "p" and "q" are extensions as well (as 'c' is for C). *)
LangIds == {<<"p">>, <<"q">>}

(* Extensions as handed to register(). *)
ExtStrings == {<<"p">>, <<".", "p">>, <<"q">>, <<"p", ".", "q">>}

(* The classes a language is bound to: a build manager and an execution    *)
(* manager class, handed to register() together.                           *)
Bindings == {"1", "2"}

BuildClass(n) == <<"B", n>>

ExecutionClass(n) == <<"E", n>>

(* A variant that leaves the leading dot in place. *)
KeepDot(ext) == ext

(* if ext.startswith('.'): ext = ext[1:] *)
StripDot(ext) == IF Len(ext) > 0 /\ Head(ext) = "." THEN Tail(ext) ELSE ext

ExtKeys == {StripDot(e) : e \in ExtStrings}

(* d[key] = value *)
SetItem(d, key, value) ==
    [k \in DOMAIN d \cup {key} |-> IF k = key THEN value ELSE d[k]]

(* os.path.splitext(path)[1] of a path without separators: the text from   *)
(* the last dot on, unless only dots come before that dot.                 *)
SplitExt(path) ==
    LET dots == {i \in 1..Len(path) : path[i] = "."}
    IN  IF dots = {} THEN <<>>
        ELSE LET last == CHOOSE i \in dots : \A j \in dots : j <= i
             IN  IF \E j \in 1..(last - 1) : path[j] # "."
                 THEN SubSeq(path, last, Len(path))
                 ELSE <<>>

(* The loop of register() over its extensions, each through                *)
(* _register_extension(); it stops at the first exception.  With force     *)
(* and the extension present, extensions[language] is read: KeyError       *)
(* when the language id is no key of the extension table, RuntimeError     *)
(* when that entry differs from the extension.                             *)
RECURSIVE RegisterExtensions(_, _, _, _)
RegisterExtensions(extensions, exts, language, force) ==
    IF exts = <<>> THEN [extensions |-> extensions, outcome |-> "ok"]
    ELSE LET ext == StripDot(Head(exts))
         IN  IF force /\ ext \in DOMAIN extensions
                   /\ language \notin DOMAIN extensions
             THEN [extensions |-> extensions, outcome |-> "KeyError"]
             ELSE IF force /\ ext \in DOMAIN extensions
                        /\ ext # extensions[language]
             THEN [extensions |-> extensions, outcome |-> "RuntimeError"]
             ELSE RegisterExtensions(SetItem(extensions, ext, language),
                                     Tail(exts), language, force)

(* language_from_extension(): the language, or ValueError. *)
LanguageFromExtension(extensions, ext) ==
    LET key == StripDot(ext)
    IN  IF key \in DOMAIN extensions
        THEN [outcome |-> "ok", value |-> extensions[key]]
        ELSE [outcome |-> "ValueError", value |-> <<>>]

(* language_from_filename(): splitext(path)[1] or '.' *)
LanguageFromFilename(extensions, path) ==
    LET ext == SplitExt(path)
    IN  LanguageFromExtension(extensions, IF ext = <<>> THEN <<".">> ELSE ext)

(* build_manager_class() and execution_manager_class(), and with them      *)
(* build_manager() and execution_manager(): the class, or the KeyError of  *)
(* the dict.                                                               *)
ManagerClass(managers, language) ==
    IF language \in DOMAIN managers
    THEN [outcome |-> "ok", value |-> managers[language]]
    ELSE [outcome |-> "KeyError", value |-> <<>>]

NoRegistryCall ==
    [op |-> "none", language |-> <<>>, force |-> FALSE, exts |-> <<>>,
     arg |-> <<>>, outcome |-> "", value |-> <<>>]

RegistryCall(op, arg, res) ==
    [NoRegistryCall EXCEPT !.op = op, !.arg = arg, !.outcome = res.outcome,
                           !.value = res.value]

(* Registry dicts over a set of keys. *)
Dicts(keys, values) == UNION {[D -> values] : D \in SUBSET keys}

RGStartWith(extensions, bound) ==
    /\ rg_extensions = extensions
    /\ rg_build_managers = [l \in DOMAIN bound |-> BuildClass(bound[l])]
    /\ rg_execution_managers = [l \in DOMAIN bound |-> ExecutionClass(bound[l])]
    /\ rg_registered = {<<e, extensions[e]>> : e \in DOMAIN extensions}
    /\ rg_call = NoRegistryCall

(* Any registry that register() calls without force can have built. *)
RGInit ==
    \E extensions \in Dicts(ExtKeys, LangIds), bound \in Dicts(LangIds, Bindings) :
        RGStartWith(extensions, bound)

(* The part at rest, for the specifications of the other parts. *)
RGRest == RGStartWith(<<>>, <<>>)

(* register(language, build, execution, force, extensions, aliases) *)
RGRegister ==
    /\ rg_call.op = "none"
    /\ \E language \in LangIds, n \in Bindings, force \in BOOLEAN,
          exts \in SeqsUpTo(ExtStrings, MaxExts),
          aliases \in SeqsUpTo(LangIds, 1) :
         \E reg \in {RegisterExtensions(rg_extensions, exts, language, force)},
            ids \in {{language} \cup {aliases[i] : i \in 1..Len(aliases)}} :
             /\ rg_extensions' = reg.extensions
             /\ IF reg.outcome = "ok"
                THEN /\ rg_build_managers' =
                            [l \in DOMAIN rg_build_managers \cup ids |->
                                IF l \in ids THEN BuildClass(n)
                                ELSE rg_build_managers[l]]
                     /\ rg_execution_managers' =
                            [l \in DOMAIN rg_execution_managers \cup ids |->
                                IF l \in ids THEN ExecutionClass(n)
                                ELSE rg_execution_managers[l]]
                ELSE UNCHANGED <<rg_build_managers, rg_execution_managers>>
             /\ rg_registered' = rg_registered \cup
                    {<<e, language>> : e \in
                        {k \in DOMAIN reg.extensions :
                            /\ reg.extensions[k] = language
                            /\ \E i \in 1..Len(exts) : StripDot(exts[i]) = k}}
             /\ rg_call' = [NoRegistryCall EXCEPT
                               !.op = "register", !.language = language,
                               !.force = force, !.exts = exts,
                               !.arg = BuildClass(n),
                               !.outcome = reg.outcome]
    /\ RGFrame

(* language_from_extension(ext) *)
RGLanguageFromExtension ==
    /\ rg_call.op = "none"
    /\ \E ext \in ExtStrings \cup {<<".">> \o e : e \in ExtStrings} \cup {<<>>} :
         rg_call' = RegistryCall("language_from_extension", ext,
                                 LanguageFromExtension(rg_extensions, ext))
    /\ UNCHANGED <<rg_extensions, rg_build_managers, rg_execution_managers,
                   rg_registered>>
    /\ RGFrame

(* language_from_filename(path) *)
RGLanguageFromFilename ==
    /\ rg_call.op = "none"
    /\ \E path \in {<<"m", ".">> \o StripDot(e) : e \in ExtStrings}
                      \cup {<<"m">>, <<".", "p">>} :
         rg_call' = RegistryCall("language_from_filename", path,
                                 LanguageFromFilename(rg_extensions, path))
    /\ UNCHANGED <<rg_extensions, rg_build_managers, rg_execution_managers,
                   rg_registered>>
    /\ RGFrame

(* build_manager(language, source) *)
RGBuildManager ==
    /\ rg_call.op = "none"
    /\ \E language \in LangIds :
         rg_call' = RegistryCall("build_manager", language,
                                 ManagerClass(rg_build_managers, language))
    /\ UNCHANGED <<rg_extensions, rg_build_managers, rg_execution_managers,
                   rg_registered>>
    /\ RGFrame

(* execution_manager(language, build_manager) *)
RGExecutionManager ==
    /\ rg_call.op = "none"
    /\ \E language \in LangIds :
         rg_call' = RegistryCall("execution_manager", language,
                                 ManagerClass(rg_execution_managers, language))
    /\ UNCHANGED <<rg_extensions, rg_build_managers, rg_execution_managers,
                   rg_registered>>
    /\ RGFrame

RGNext ==
    \/ RGRegister
    \/ RGLanguageFromExtension
    \/ RGLanguageFromFilename
    \/ RGBuildManager
    \/ RGExecutionManager

---------------------------------------------------------------------------
(* The file permissions of an external build: build_tempdir(),             *)
(* prepare_files() with write(), compile_files().  A file's mode is the    *)
(* set of its permission bits, named as in the stat module.                *)

ReadBits == {"S_IREAD", "S_IRGRP", "S_IROTH"}

WriteBits == {"S_IWRITE", "S_IWGRP", "S_IWOTH"}

ExecBits == {"S_IEXEC", "S_IXGRP", "S_IXOTH"}

(* What the umask of the process takes away from a new file. *)
Umasks == {{}, {"S_IWOTH"}, {"S_IWGRP", "S_IWOTH"},
           {"S_IRGRP", "S_IWGRP", "S_IXGRP", "S_IROTH", "S_IWOTH", "S_IXOTH"}}

(* tempfile.mkdtemp(): a directory for its owner alone. *)
MkdtempMode == {"S_IREAD", "S_IWRITE", "S_IEXEC"}

(* open(full_path, 'w') creates the file readable and writable, less the   *)
(* umask.                                                                  *)
CreatedMode(umask) == (ReadBits \cup WriteBits) \ umask

(* The compiler creates the executable with every bit, less the umask. *)
LinkedMode(umask) == (ReadBits \cup WriteBits \cup ExecBits) \ umask

(* A variant of write() that leaves the file as it was created. *)
ModeAsCreated(sandboxed, created) == created

(* write(): os.chmod(full_path, S_IREAD | S_IROTH | S_IRGRP) if sandboxed *)
ModeAfterWrite(sandboxed, created) == IF sandboxed THEN ReadBits ELSE created

(* compile_files(): os.chmod(executable_name, read and exec bits) if       *)
(* sandboxed.                                                              *)
ModeAfterCompile(sandboxed, linked) ==
    IF sandboxed THEN ReadBits \cup ExecBits ELSE linked

SBStartWith(sandboxed, class, compiler, umask) ==
    /\ sb_sandboxed = sandboxed
    /\ sb_class = class
    /\ sb_compiler = compiler
    /\ sb_umask = umask
    /\ sb_pc = "tempdir"
    /\ sb_dir_mode = {}
    /\ sb_modes = <<>>

SBInit ==
    \E sandboxed \in BOOLEAN, class \in {"compiled", "interpreted"},
       compiler \in {"ok", "nonzero", "timeout"}, umask \in Umasks :
        SBStartWith(sandboxed, class, compiler, umask)

(* The part at rest, for the specifications of the other parts. *)
SBRest == SBStartWith(FALSE, "interpreted", "ok", {})

(* build_tempdir(): mkdtemp(), opened to everyone if sandboxed. *)
SBBuildTempdir ==
    /\ sb_pc = "tempdir"
    /\ sb_dir_mode' = IF sb_sandboxed
                      THEN ReadBits \cup WriteBits \cup ExecBits
                      ELSE MkdtempMode
    /\ sb_pc' = "prepare"
    /\ UNCHANGED <<sb_sandboxed, sb_class, sb_compiler, sb_umask, sb_modes>>
    /\ SBFrame

(* prepare_files(): write() creates the source file, writes it and, if     *)
(* sandboxed, takes the write permission away.                             *)
SBPrepareFiles ==
    /\ sb_pc = "prepare"
    /\ sb_modes' = SetItem(sb_modes, "source",
                           ModeAfterWrite(sb_sandboxed, CreatedMode(sb_umask)))
    /\ sb_pc' = IF sb_class = "compiled" THEN "compile" ELSE "built"
    /\ UNCHANGED <<sb_sandboxed, sb_class, sb_compiler, sb_umask, sb_dir_mode>>
    /\ SBFrame

(* compile_files(): the compiler leaves the executable and its mode is     *)
(* set; or it fails and leaves none; or it is stopped at the time limit,   *)
(* with or without an executable on disk.                                  *)
SBCompileFiles ==
    /\ sb_pc = "compile"
    /\ \/ /\ sb_compiler = "ok"
          /\ sb_modes' = SetItem(sb_modes, "executable",
                                 ModeAfterCompile(sb_sandboxed,
                                                  LinkedMode(sb_umask)))
          /\ sb_pc' = "built"
       \/ /\ sb_compiler = "nonzero"
          /\ sb_pc' = "failed"
          /\ UNCHANGED sb_modes
       \/ /\ sb_compiler = "timeout"
          /\ sb_pc' = "failed"
          /\ \/ UNCHANGED sb_modes
             \/ sb_modes' = SetItem(sb_modes, "executable", LinkedMode(sb_umask))
    /\ UNCHANGED <<sb_sandboxed, sb_class, sb_compiler, sb_umask, sb_dir_mode>>
    /\ SBFrame

SBNext ==
    \/ SBBuildTempdir
    \/ SBPrepareFiles
    \/ SBCompileFiles

---------------------------------------------------------------------------
(* The inputs of an ExecutionManager: add_input(), add_inputs() and the    *)
(* start and end of its run.                                               *)

AIStartWith(inputs) ==
    /\ ai_inputs = inputs
    /\ ai_run_inputs = <<>>
    /\ ai_is_started = FALSE
    /\ ai_is_closed = FALSE
    /\ ai_call = [op |-> "none", arg |-> <<>>]

(* ExecutionManager(build_manager, inputs): self.inputs = tuple(inputs) *)
AIInit == \E inputs \in SeqsUpTo(InputValues, MaxInputs) : AIStartWith(inputs)

(* The part at rest, for the specifications of the other parts. *)
AIRest == AIStartWith(<<>>)

(* add_input(input_str): self.inputs += (input_str,) *)
AIAddInput ==
    /\ Len(ai_inputs) < MaxInputs
    /\ \E input_str \in InputValues :
         /\ ai_inputs' = ai_inputs \o <<input_str>>
         /\ ai_call' = [op |-> "add_input", arg |-> <<input_str>>]
    /\ UNCHANGED <<ai_run_inputs, ai_is_started, ai_is_closed>>
    /\ AIFrame

(* add_inputs(seq): self.inputs += tuple(seq) *)
AIAddInputs ==
    /\ \E seq \in SeqsUpTo(InputValues, MaxInputs) :
         /\ Len(ai_inputs) + Len(seq) <= MaxInputs
         /\ ai_inputs' = ai_inputs \o seq
         /\ ai_call' = [op |-> "add_inputs", arg |-> seq]
    /\ UNCHANGED <<ai_run_inputs, ai_is_started, ai_is_closed>>
    /\ AIFrame

(* run() passes its guards, start() sets is_started and interact() takes   *)
(* hold of the inputs: enumerate(self.inputs) in run_pinteract(),          *)
(* list(reversed(self.inputs)) in builtins().  The tuple it holds is not   *)
(* the one a later `self.inputs +=` makes.                                 *)
AIStart ==
    /\ ~ai_is_started /\ ~ai_is_closed
    /\ ai_is_started' = TRUE
    /\ ai_run_inputs' = ai_inputs
    /\ ai_call' = [op |-> "start", arg |-> <<>>]
    /\ UNCHANGED <<ai_inputs, ai_is_closed>>
    /\ AIFrame

(* interact() is over and end() sets is_closed. *)
AIEnd ==
    /\ ai_is_started /\ ~ai_is_closed
    /\ ai_is_closed' = TRUE
    /\ ai_call' = [op |-> "end", arg |-> <<>>]
    /\ UNCHANGED <<ai_inputs, ai_run_inputs, ai_is_started>>
    /\ AIFrame

AINext ==
    \/ AIAddInput
    \/ AIAddInputs
    \/ AIStart
    \/ AIEnd

---------------------------------------------------------------------------
(* util.timeout(func, timeout=..., threading=...): a call of a function    *)
(* under a time limit.  Time is counted in whole units; the function       *)
(* needs to_time units and then returns, raises an Exception or raises     *)
(* SystemExit.                                                             *)

FuncEnds == {"returns", "raises", "exits"}

(* What a direct call of func does. *)
FuncOutcome(end) ==
    CASE end = "returns" -> "returned"
      [] end = "raises" -> "raised"
      [] end = "exits" -> "SystemExit"

(* What the threaded branch does with a worker that has ended: its result, *)
(* the Exception target() caught, or the IndexError of exceptions.pop()    *)
(* when SystemExit ended the thread and both lists are empty.              *)
JoinedOutcome(end) ==
    CASE end = "returns" -> "returned"
      [] end = "raises" -> "raised"
      [] end = "exits" -> "IndexError"

(* The outcomes of timeout(): ValueError for a timeout that is given and   *)
(* not positive; a direct call for None; otherwise TimeoutError when the   *)
(* limit elapses first, the outcome of the function when it ends first,    *)
(* either of them when both fall together.                                 *)
TimeoutOutcomes(given, timeout, threading, time, end) ==
    IF given /\ timeout <= 0 THEN {"ValueError"}
    ELSE IF ~given THEN {FuncOutcome(end)}
    ELSE LET ended == IF threading THEN JoinedOutcome(end) ELSE FuncOutcome(end)
         IN  IF time > timeout THEN {"TimeoutError"}
             ELSE IF time = timeout THEN {"TimeoutError", ended}
             ELSE {ended}

TOStartWith(given, timeout, threading, time, end) ==
    /\ to_given = given
    /\ to_timeout = timeout
    /\ to_threading = threading
    /\ to_time = time
    /\ to_end = end
    /\ to_outcome = "none"

TOInit ==
    \E given \in BOOLEAN, timeout \in (0 - 1)..MaxTimeout, threading \in BOOLEAN,
       time \in 0..(MaxTimeout + 1), end \in FuncEnds :
        /\ ~given => timeout = 0
        /\ TOStartWith(given, timeout, threading, time, end)

(* The part at rest, for the specifications of the other parts. *)
TORest == TOStartWith(FALSE, 0, TRUE, 0, "returns")

(* timeout(func, timeout=..., threading=...) *)
TOCall ==
    /\ to_outcome = "none"
    /\ to_outcome' \in TimeoutOutcomes(to_given, to_timeout, to_threading,
                                       to_time, to_end)
    /\ UNCHANGED <<to_given, to_timeout, to_threading, to_time, to_end>>
    /\ TOFrame

TONext == TOCall

---------------------------------------------------------------------------
(* The global print and input over runs that follow one another in one     *)
(* process, each under a timeout (run_from_manager() runs one              *)
(* ExecutionManager per input set): for every run the thread in            *)
(* interact_with_timeout() and the worker thread util.timeout() starts     *)
(* for wrapped_exec().  The program of a run calls print() and then        *)
(* input().                                                                *)

Runs == 1..NumRuns

(* builtins_ctrl._print and _input, the primitives saved at import. *)
Originals == 0

BIInit ==
    /\ bi_builtins = Originals
    /\ bi_main = [r \in Runs |-> "idle"]
    /\ bi_worker = [r \in Runs |-> "idle"]
    /\ bi_printed_by = [r \in Runs |-> Originals]
    /\ bi_read_by = [r \in Runs |-> Originals]

(* The part at rest, for the specifications of the other parts. *)
BIRest == BIInit

(* run() of the next manager reaches util.timeout(): thread.start() and    *)
(* thread.join(timeout).                                                   *)
BICall(r) ==
    /\ bi_main[r] = "idle"
    /\ r > 1 => bi_main[r - 1] = "done"
    /\ bi_main' = [bi_main EXCEPT ![r] = "join"]
    /\ bi_worker' = [bi_worker EXCEPT ![r] = "start"]
    /\ UNCHANGED <<bi_builtins, bi_printed_by, bi_read_by>>
    /\ BIFrame

(* The worker enters patched_builtins(self.builtins()): update() sets the  *)
(* run's print and input on the builtins module.                           *)
BIPatch(r) ==
    /\ bi_worker[r] = "start"
    /\ bi_worker' = [bi_worker EXCEPT ![r] = "patched"]
    /\ bi_builtins' = r
    /\ UNCHANGED <<bi_main, bi_printed_by, bi_read_by>>
    /\ BIFrame

(* The program calls print(): the one the builtins module holds now. *)
BIPrint(r) ==
    /\ bi_worker[r] = "patched"
    /\ bi_worker' = [bi_worker EXCEPT ![r] = "printed"]
    /\ bi_printed_by' = [bi_printed_by EXCEPT ![r] = bi_builtins]
    /\ UNCHANGED <<bi_main, bi_builtins, bi_read_by>>
    /\ BIFrame

(* The program calls input(): the one the builtins module holds now. *)
BIInput(r) ==
    /\ bi_worker[r] = "printed"
    /\ bi_worker' = [bi_worker EXCEPT ![r] = "read"]
    /\ bi_read_by' = [bi_read_by EXCEPT ![r] = bi_builtins]
    /\ UNCHANGED <<bi_main, bi_builtins, bi_printed_by>>
    /\ BIFrame

(* The program ends and the worker leaves the with block: restore(). *)
BIRestore(r) ==
    /\ bi_worker[r] = "read"
    /\ bi_worker' = [bi_worker EXCEPT ![r] = "ended"]
    /\ bi_builtins' = Originals
    /\ UNCHANGED <<bi_main, bi_printed_by, bi_read_by>>
    /\ BIFrame

(* thread.join(timeout) returns with the worker ended: the result. *)
BIJoin(r) ==
    /\ bi_main[r] = "join"
    /\ bi_worker[r] = "ended"
    /\ bi_main' = [bi_main EXCEPT ![r] = "done"]
    /\ UNCHANGED <<bi_builtins, bi_worker, bi_printed_by, bi_read_by>>
    /\ BIFrame

(* thread.join(timeout) returns with the worker alive: TimeoutError, and   *)
(* run() returns the timeout case.  The worker goes on.                    *)
BITimeout(r) ==
    /\ bi_main[r] = "join"
    /\ bi_worker[r] # "ended"
    /\ bi_main' = [bi_main EXCEPT ![r] = "done"]
    /\ UNCHANGED <<bi_builtins, bi_worker, bi_printed_by, bi_read_by>>
    /\ BIFrame

BINext ==
    \/ \E r \in Runs : BICall(r)
    \/ \E r \in Runs : BIPatch(r)
    \/ \E r \in Runs : BIPrint(r)
    \/ \E r \in Runs : BIInput(r)
    \/ \E r \in Runs : BIRestore(r)
    \/ \E r \in Runs : BIJoin(r)
    \/ \E r \in Runs : BITimeout(r)

---------------------------------------------------------------------------
(* The specifications. *)

EMRest == BMStart(TRUE) /\ EMStart

InitPI ==
    /\ PIInit /\ EMRest /\ ITRest /\ FNRest /\ WRRest /\ MDRest /\ RGRest /\ SBRest
    /\ AIRest /\ TORest /\ BIRest

SpecPI == InitPI /\ [][PINext]_vars

InitEM ==
    /\ EMInit /\ PIRest /\ ITRest /\ FNRest /\ WRRest /\ MDRest /\ RGRest /\ SBRest
    /\ AIRest /\ TORest /\ BIRest

SpecEM == InitEM /\ [][EMNext]_vars

InitIT ==
    /\ ITInit /\ PIRest /\ EMRest /\ FNRest /\ WRRest /\ MDRest /\ RGRest /\ SBRest
    /\ AIRest /\ TORest /\ BIRest

SpecIT == InitIT /\ [][ITNext]_vars

InitFN ==
    /\ FNInit /\ PIRest /\ EMRest /\ ITRest /\ WRRest /\ MDRest /\ RGRest /\ SBRest
    /\ AIRest /\ TORest /\ BIRest

SpecFN == InitFN /\ [][FNNext]_vars

InitWR ==
    /\ WRInit /\ PIRest /\ EMRest /\ ITRest /\ FNRest /\ MDRest /\ RGRest /\ SBRest
    /\ AIRest /\ TORest /\ BIRest

SpecWR == InitWR /\ [][WRNext]_vars

InitMD ==
    /\ MDInit /\ PIRest /\ EMRest /\ ITRest /\ FNRest /\ WRRest /\ RGRest /\ SBRest
    /\ AIRest /\ TORest /\ BIRest

SpecMD == InitMD /\ [][MDNext]_vars

InitRG ==
    /\ RGInit /\ PIRest /\ EMRest /\ ITRest /\ FNRest /\ WRRest /\ MDRest /\ SBRest
    /\ AIRest /\ TORest /\ BIRest

SpecRG == InitRG /\ [][RGNext]_vars

InitSB ==
    /\ SBInit /\ PIRest /\ EMRest /\ ITRest /\ FNRest /\ WRRest /\ MDRest /\ RGRest
    /\ AIRest /\ TORest /\ BIRest

SpecSB == InitSB /\ [][SBNext]_vars

InitAI ==
    /\ AIInit /\ PIRest /\ EMRest /\ ITRest /\ FNRest /\ WRRest /\ MDRest /\ RGRest
    /\ SBRest /\ TORest /\ BIRest

SpecAI == InitAI /\ [][AINext]_vars

InitTO ==
    /\ TOInit /\ PIRest /\ EMRest /\ ITRest /\ FNRest /\ WRRest /\ MDRest /\ RGRest
    /\ SBRest /\ AIRest /\ BIRest

SpecTO == InitTO /\ [][TONext]_vars

InitBI ==
    /\ BIInit /\ PIRest /\ EMRest /\ ITRest /\ FNRest /\ WRRest /\ MDRest /\ RGRest
    /\ SBRest /\ AIRest /\ TORest

SpecBI == InitBI /\ [][BINext]_vars

---------------------------------------------------------------------------
(* Properties of the life cycle. *)

---------------------------------------------------------------------------
(* Properties of fine-grained external execution. *)

(* The nodes that the calls made so far stand for: a successful send is    *)
(* an In node, a receive that returned text is an Out node.                *)
RECURSIVE NodesOfCalls(_)
NodesOfCalls(calls) ==
    IF calls = <<>> THEN <<>>
    ELSE LET c == calls[Len(calls)]
             before == NodesOfCalls(SubSeq(calls, 1, Len(calls) - 1))
         IN  IF c.op = "send" /\ c.ok THEN Append(before, In(c.data))
             ELSE IF c.op = "receive" /\ c.ok /\ c.data # <<>>
                  THEN Append(before, Out(c.data))
                  ELSE before

IsIn(n) == n.type = "In"

InputsOf(nodes) ==
    LET ins == SelectSeq(nodes, IsIn)
    IN  [i \in 1..Len(ins) |-> ins[i].data]

(* An optional first Out, then each In followed by at most one Out. *)
Alternates(nodes) ==
    \A i \in 1..Len(nodes) - 1 :
        nodes[i].type = "Out" => nodes[i + 1].type = "In"

PIHasTrace == pi_case.kind \in {"simple", "error"}

PILastCall == pi_calls[Len(pi_calls)]

(* The send of an input failed on a process that had already exited. *)
PIEarlySendFailure ==
    /\ pi_calls # <<>>
    /\ PILastCall.op = "send"
    /\ ~PILastCall.ok
    /\ ~pi_alive

(* The run ended in a send that ran into the timeout: run() hands back a   *)
(* timeout trace of its own making.                                        *)
PISendTimedOut ==
    /\ pi_case.error_type = "timeout"
    /\ pi_calls # <<>>
    /\ PILastCall.op = "send"

(* C8, as the code has it: while run_pinteract collects, and in the trace  *)
(* that run() returns, the nodes are the successful sends and the          *)
(* non-empty receives in call order, an optional first Out and then each   *)
(* In followed by at most one Out, the In nodes being the sent inputs in   *)
(* order; no Out node is empty, except that the last node of the returned  *)
(* trace is an empty Out when the last chunk received was a lone newline,  *)
(* which run() removes.  The trace of a run whose send ran into the        *)
(* timeout holds no node at all.                                           *)
C8_TraceFollowsCalls ==
    /\ pi_pc # "done" =>
          /\ pi_result = NodesOfCalls(pi_calls)
          /\ \A i \in 1..Len(pi_result) :
                pi_result[i].type = "Out" => pi_result[i].data # <<>>
    /\ PIHasTrace /\ PISendTimedOut => pi_case.nodes = <<>>
    /\ PIHasTrace /\ ~PISendTimedOut =>
          /\ pi_case.nodes = RemoveTrailingNewline(NodesOfCalls(pi_calls))
          /\ Alternates(pi_case.nodes)
          /\ InputsOf(pi_case.nodes) = SubSeq(pi_inputs, 1, pi_sent)
          /\ \A i \in 1..Len(pi_case.nodes) - 1 :
                pi_case.nodes[i].type = "Out" => pi_case.nodes[i].data # <<>>

(* C8 as stated: in the returned trace no Out node at all is empty. *)
C8_Original ==
    PIHasTrace =>
        /\ pi_case.nodes = RemoveTrailingNewline(NodesOfCalls(pi_calls))
        /\ Alternates(pi_case.nodes)
        /\ InputsOf(pi_case.nodes) = SubSeq(pi_inputs, 1, pi_sent)
        /\ \A i \in 1..Len(pi_case.nodes) :
              pi_case.nodes[i].type = "Out" => pi_case.nodes[i].data # <<>>

(* A returned trace Out, In, Out, In, Out whose last Out was emptied. *)
C8_Witness ==
    /\ pi_case.kind = "simple"
    /\ Len(pi_case.nodes) = 5
    /\ pi_sent = 2
    /\ pi_case.nodes[5] = Out(<<>>)

C10_Original ==
    PIEarlySendFailure =>
        /\ pi_case.kind = "error"
        /\ pi_case.error_type = "earlytermination"

---------------------------------------------------------------------------
(* In-process execution: claims.                                           *)

(* C4 (as stated): an in-process, unsandboxed run never leaves its caller  *)
(* blocked forever when the child ends without delivering a result: the    *)
(* parent is never waiting on the queue of a child that has ended and put  *)
(* nothing on it, with or without a timeout.                               *)
C4_Original ==
    ~(it_par = "getting" /\ it_child = "exited" /\ it_queue = <<>>)

(* C5 (as stated): every exception that leaves the user program, missing   *)
(* input and exit requests included, becomes the runtime-error result of   *)
(* wrapped_exec() with the nodes recorded up to the failure; it never      *)
(* propagates.                                                             *)
C5_Original ==
    it_fail.kind # "none" =>
        /\ it_exec = "returned"
        /\ it_execResult.kind = "error"
        /\ it_execResult.error_type = "runtime"
        /\ it_execResult.nodes = it_fail.nodes

(* C6 (as stated): once in-process execution has handed its result back,   *)
(* by whichever path, the global print and input of the executing process  *)
(* are the originals.                                                      *)
C6_Original ==
    it_main = "done" => it_builtins[ExecProc] = "orig"

---------------------------------------------------------------------------
(* The public functions: claims.                                           *)

(* C2 (as stated): with a timeout configured, run and grade hand it to     *)
(* every execution they start; the call never waits on a program that does *)
(* not end, and the case of an input set on which the program never ends   *)
(* is classified 'timeout', for every execution strategy.                  *)
C2_Original ==
    TimeoutGiven(fn_timeout) =>
        /\ fn_pc # "blocked"
        /\ \A i \in DOMAIN fn_cases :
              /\ fn_cases[i].deadline \in {fn_timeout, "no-run"}
              /\ fn_cases[i].kind = "loops" => fn_cases[i].class = "timeout"

(* C3 (as stated): with no timeout, run gives one test case per input set  *)
(* and the case of an input set on which the program ends normally is a    *)
(* success case, never an error case; nothing is raised for it.            *)
C3_Original ==
    fn_func = "run" /\ ~TimeoutGiven(fn_timeout) /\ fn_build = "ok" =>
        /\ \A i \in DOMAIN fn_cases :
              fn_cases[i].kind = "terminates" => fn_cases[i].class = "simple"
        /\ (\A i \in DOMAIN fn_kinds : fn_kinds[i] = "terminates") =>
              /\ fn_pc # "raised"
              /\ fn_pc = "returned" => Len(fn_cases) = Len(fn_kinds)

---------------------------------------------------------------------------
(* The build: claims.                                                      *)

(* A call has just been made on a manager. *)
CallMade == em_tick' # em_tick

BuildState == <<bm_is_built, bm_build_path, bm_files>>

(* C11 (as stated): build() on a manager that is already built raises      *)
(* nothing, executes no build step (validation, temp directory, writing,   *)
(* compiling) and leaves the build directory and its files as they were.   *)
C11_Original ==
    [][(CallMade /\ em_call'.op = "build" /\ bm_is_built) =>
            /\ em_call'.outcome = "ok"
            /\ em_call'.steps = {}
            /\ UNCHANGED BuildState]_vars

C13_Original ==
    [][(CallMade /\ bm_failed) =>
            /\ em_call'.steps = {}
            /\ ~bm_is_built']_vars

(* C14: a run that is not refused and finds the manager unbuilt goes       *)
(* through build() (and starts only if the manager is then built); a run   *)
(* that finds it built executes no build step and leaves the build         *)
(* directory and files as they are, whichever execution manager runs.      *)
C14_LazySharedBuild ==
    [][\A e \in EMs :
        (/\ CallMade
         /\ em_call'.op \in {"run", "run_interactive"}
         /\ em_call'.em = e
         /\ ~RunRefused(e))
        => IF bm_is_built
           THEN em_call'.steps = {} /\ UNCHANGED BuildState
           ELSE /\ "validate" \in em_call'.steps
                /\ em_is_started'[e] => bm_is_built']_vars

C14_Witness ==
    /\ bm_class = "compiled"
    /\ bm_is_built
    /\ bm_files = {"source", "executable"}
    /\ \A e \in EMs : em_is_closed[e]
    /\ em_call.op = "run"
    /\ em_call.outcome = "simple"
    /\ em_call.steps = {}

(* C16: when a build of the manager has failed, no execution manager bound *)
(* to it is started, interact() has not been entered, no duration is       *)
(* recorded and the accumulated execution duration is zero.                *)
C16_NoExecutionAfterFailedBuild ==
    bm_failed =>
        /\ ~bm_is_built
        /\ \A e \in EMs : /\ ~em_is_started[e]
                          /\ ~em_is_closed[e]
                          /\ em_interacts[e] = 0
                          /\ em_duration[e] = 0
        /\ bm_exec_dur = 0
        /\ ~bm_hse

C16_Witness ==
    /\ bm_failed
    /\ em_call.op = "run"
    /\ em_call.outcome = "BuildError"
    /\ \A e \in EMs : ~em_is_started[e]

RECURSIVE SumDurations(_)
SumDurations(S) ==
    IF S = {} THEN 0
    ELSE LET e == CHOOSE x \in S : TRUE
         IN  em_duration[e] + SumDurations(S \ {e})

(* C17: the accumulated execution duration of the build manager is the sum *)
(* of the durations recorded by its execution managers.                    *)
C17_DurationIsSum == bm_exec_dur = SumDurations(EMs)

C17_Witness ==
    /\ \A e \in EMs : em_is_closed[e] /\ em_duration[e] = MaxDur
    /\ bm_exec_dur = NumEM * MaxDur
    /\ MaxDur > 0

(* C19 (as stated): in a compiled build, a compiler run past the time      *)
(* limit and a compiler exit with non-zero status both make build() raise  *)
(* BuildError, the latter with the compiler's output, and the manager is   *)
(* not built.                                                              *)
C19_Original ==
    (bm_class = "compiled" /\ bm_compiler # "ok" /\ "compile" \in em_call.steps) =>
        /\ em_call.outcome = "BuildError"
        /\ ~bm_is_built
        /\ bm_compiler = "nonzero" => em_call.msg = CompilerOutput

---------------------------------------------------------------------------
(* The public functions and write(): further claims.                       *)

(* C15 (as stated): run, with raises off, on a source with invalid syntax  *)
(* returns one build-error case for every input set it was given.          *)
C15_Original ==
    (/\ fn_func = "run"
     /\ fn_build = SyntaxDiagnostic
     /\ ~fn_raises
     /\ fn_pc = "returned")
    => /\ Len(fn_cases) = Len(fn_kinds)
       /\ \A i \in DOMAIN fn_cases : fn_cases[i].class = "build"

(* C18 (as stated): once the build has failed, run and grade raise exactly *)
(* when raises is on; with raises off every result that comes back is      *)
(* classified as a build error.                                            *)
C18_Original ==
    (fn_build # "ok" /\ fn_pc # "build") =>
        IF fn_raises
        THEN fn_pc = "raised"
        ELSE /\ fn_pc # "raised"
             /\ \A i \in DOMAIN fn_cases : fn_cases[i].class = "build"
             /\ fn_pc = "returned" => fn_cases # <<>>

(* C20 (as stated): write() on a manager with a build directory ends with  *)
(* PermissionError, nothing written, for every path that resolves outside  *)
(* the build directory, and writes only to locations inside it.            *)
C20_Original ==
    (wr_build_path # "None" /\ wr_outcome # "none") =>
        /\ (~wr_absolute \/ ~InsideBuildDir(Resolve(<<>>, wr_path))) =>
              wr_outcome = "PermissionError" /\ wr_written = {}
        /\ \A loc \in wr_written : InsideBuildDir(loc)

---------------------------------------------------------------------------
(* close(): claims.                                                        *)

(* C21 (as stated): once the manager is closed, the temporary directory it *)
(* built into and the files in it no longer exist.                         *)
C21_Original ==
    bm_is_closed => bm_build_path = "None" /\ bm_files = {}

(* C22: close() on a closed manager raises nothing and changes nothing of  *)
(* the build manager or of the execution managers bound to it; a closed    *)
(* manager stays closed under every operation.                             *)
C22_CloseIdempotent ==
    /\ [][(CallMade /\ em_call'.op = "close" /\ bm_is_closed) =>
              /\ em_call'.outcome = "ok"
              /\ UNCHANGED <<bmVars, em_is_started, em_is_closed, em_duration,
                             em_interacts>>]_vars
    /\ [][bm_is_closed => bm_is_closed']_vars

(* Only close() and refused runs have been called, an even number of times *)
(* in all, and the last call was close(): close() was called twice at      *)
(* least.                                                                  *)
C22_Witness ==
    /\ bm_is_closed
    /\ em_call.op = "close"
    /\ em_tick = 0
    /\ bm_class = "compiled" /\ bm_syntax_ok
    /\ ~bm_is_built /\ ~bm_failed
    /\ \A e \in EMs : ~em_is_started[e]

---------------------------------------------------------------------------
(* The trace run() returns: claims.                                        *)

(* run() has returned a test case for the in-process run. *)
ITReturned == it_out.kind \in {"simple", "error"}

---------------------------------------------------------------------------
(* The mode of an external run: claims.                                    *)

(* C25: the flag on the build decides the runner of an external run when   *)
(* it is set (true: stream-compare, false: fine-grained); when it is unset *)
(* the run of an external-process language is fine-grained.                *)
C25_Original ==
    md_pc # "init" =>
        md_mode = IF md_flag = "True" THEN "popen" ELSE "pinteract"

---------------------------------------------------------------------------
(* The LanguageRegistry: claims.                                           *)

(* A name of at least one character with no dot in it. *)
SimpleName(k) == k # <<>> /\ \A i \in 1..Len(k) : k[i] # "."

(* The extension k resolves to the language l under `extensions`: written  *)
(* without the dot, with the dot, and as the suffix of a file name.        *)
ResolvesTo(extensions, k, l) ==
    /\ LanguageFromExtension(extensions, k) = [outcome |-> "ok", value |-> l]
    /\ LanguageFromExtension(extensions, <<".">> \o k) =
           [outcome |-> "ok", value |-> l]
    /\ LanguageFromFilename(extensions, <<"m", ".">> \o k) =
           [outcome |-> "ok", value |-> l]

(* The extensions of the call, as the keys they are stored under. *)
KeysOfCall(call) == {StripDot(call.exts[i]) : i \in 1..Len(call.exts)}

(* C26 (as stated): every extension a language with a binding was ever     *)
(* registered with resolves to that language, in each of its three         *)
(* writings.                                                               *)
C26_Original ==
    \A r \in rg_registered :
        r[2] \in DOMAIN rg_build_managers =>
            ResolvesTo(rg_extensions, r[1], r[2])

(* C26 (amended): an extension that is a dot-free name resolves, in each   *)
(* of its three writings, to the language of the last register() call      *)
(* that bound it: every such entry of the table resolves to its language,  *)
(* a register() call that ends well leaves each of its extensions          *)
(* resolving to its language, and a register() call changes the entry of   *)
(* no extension it was not handed.                                         *)
C26_LastRegistrationResolves ==
    /\ [](\A k \in DOMAIN rg_extensions :
             SimpleName(k) => ResolvesTo(rg_extensions, k, rg_extensions[k]))
    /\ [][rg_call'.op = "register" =>
             /\ rg_call'.outcome = "ok" =>
                    \A k \in KeysOfCall(rg_call') :
                        SimpleName(k) =>
                            ResolvesTo(rg_extensions', k, rg_call'.language)
             /\ \A k \in DOMAIN rg_extensions \ KeysOfCall(rg_call') :
                    /\ k \in DOMAIN rg_extensions'
                    /\ rg_extensions'[k] = rg_extensions[k]]_vars

(* The extension "p", registered by the language "p", was registered       *)
(* again, written ".p", by the language "q" and resolves to "q".           *)
C26_Witness ==
    /\ rg_call.op = "register" /\ rg_call.outcome = "ok"
    /\ rg_call.language = <<"q">>
    /\ rg_call.exts = << <<".", "p">> >>
    /\ <<<<"p">>, <<"p">>>> \in rg_registered
    /\ ResolvesTo(rg_extensions, <<"p">>, <<"q">>)

(* The calls that look something up in the registry. *)
Lookups == {"language_from_extension", "language_from_filename",
            "build_manager", "execution_manager"}

(* The error language_from_extension() raises for what it does not know. *)
UnknownLanguage == "ValueError"

(* C27: a lookup of what was never registered (an extension, a file name,  *)
(* the language id of a build manager or of an execution manager) fails    *)
(* with the one unknown-language error and changes no table of the         *)
(* registry.                                                               *)
C27_Original ==
    [][(rg_call'.op \in Lookups /\ rg_call'.outcome # "ok") =>
           /\ rg_call'.outcome = UnknownLanguage
           /\ UNCHANGED <<rg_extensions, rg_build_managers,
                          rg_execution_managers>>]_vars

(* The register() call conflicts with the registry it meets: one of its    *)
(* extensions is bound to another language, or its language id is bound    *)
(* to another class.                                                       *)
Conflicts(call) ==
    \/ \E k \in KeysOfCall(call) :
          k \in DOMAIN rg_extensions /\ rg_extensions[k] # call.language
    \/ /\ call.language \in DOMAIN rg_build_managers
       /\ rg_build_managers[call.language] # call.arg

(* C28: register() without force ends well and its language id and         *)
(* extensions are bound to what it was handed, whatever they were bound    *)
(* to; register() with force that conflicts with an existing binding ends  *)
(* in the configuration error (RuntimeError) and leaves every table as it  *)
(* was.                                                                    *)
C28_Original ==
    [][rg_call'.op = "register" =>
           IF rg_call'.force /\ Conflicts(rg_call')
           THEN /\ rg_call'.outcome = "RuntimeError"
                /\ UNCHANGED <<rg_extensions, rg_build_managers,
                               rg_execution_managers>>
           ELSE /\ rg_call'.outcome = "ok"
                /\ \A k \in KeysOfCall(rg_call') :
                       /\ k \in DOMAIN rg_extensions'
                       /\ rg_extensions'[k] = rg_call'.language
                /\ rg_call'.language \in DOMAIN rg_build_managers'
                /\ rg_build_managers'[rg_call'.language] = rg_call'.arg]_vars

---------------------------------------------------------------------------
(* The order of the calls on the process handle: claims.                   *)

(* The calls on the handle that are `op`. *)
CallsOf(op) == {i \in 1..Len(pi_calls) : pi_calls[i].op = op}

(* The sends among the first i calls that went well. *)
SentBy(i) == Cardinality({j \in CallsOf("send") : j <= i /\ pi_calls[j].ok})

(* C29 (as stated): in a run whose last input was sent successfully,       *)
(* finish() is called exactly once.                                        *)
C29_Original ==
    (pi_pc = "done" /\ Len(pi_inputs) > 0 /\ pi_sent = Len(pi_inputs)) =>
        Cardinality(CallsOf("finish")) = 1

(* C29 (amended): the first call on the handle is a receive; a send comes  *)
(* only after a receive that returned, carries the next input in order     *)
(* and, when it went well, is followed by exactly one receive, while a     *)
(* failed send is the last call; a receive is the first call or follows a  *)
(* send that went well; finish() is the last call, made at most once,      *)
(* after a receive that returned and with every input sent; a run that is  *)
(* over ended with finish() or with a call that failed (a send, or a       *)
(* receive that ran into the deadline).                                    *)
C29_HandleOrder ==
    LET n == Len(pi_calls)
    IN  /\ n > 0 => pi_calls[1].op = "receive"
        /\ \A i \in CallsOf("send") :
               /\ i > 1
               /\ pi_calls[i - 1].op = "receive" /\ pi_calls[i - 1].ok
               /\ SentBy(i - 1) < Len(pi_inputs)
               /\ pi_calls[i].data = pi_inputs[SentBy(i - 1) + 1]
               /\ i < n => pi_calls[i].ok /\ pi_calls[i + 1].op = "receive"
        /\ \A i \in CallsOf("receive") :
               /\ i > 1 => pi_calls[i - 1].op = "send" /\ pi_calls[i - 1].ok
               /\ i < n => pi_calls[i].ok
        /\ \A i \in CallsOf("finish") :
               /\ i = n /\ i > 1
               /\ pi_calls[i - 1].op = "receive" /\ pi_calls[i - 1].ok
               /\ SentBy(i) = Len(pi_inputs)
        /\ pi_pc = "done" =>
               /\ n > 0
               /\ pi_calls[n].op = "finish" \/ ~pi_calls[n].ok

(* Two inputs, both sent: receive, send, receive, send, receive, finish. *)
C29_Witness ==
    /\ pi_pc = "done"
    /\ Len(pi_inputs) = 2
    /\ Len(pi_calls) = 6
    /\ pi_calls[6].op = "finish" /\ pi_calls[6].ok
    /\ pi_calls[4].op = "send" /\ pi_calls[4].data = pi_inputs[2]

---------------------------------------------------------------------------
(* The in-process trace: claims.                                           *)

NoAdjacentOut(nodes) ==
    \A i \in 1..(Len(nodes) - 1) :
        ~(nodes[i].type = "Out" /\ nodes[i + 1].type = "Out")

IsPrint(stmt) == stmt \in {"print", "println"}

(* What the statement prints. *)
PieceOf(stmt) == IF stmt = "print" THEN Printed ELSE PrintedEmpty

(* The inputs read by the first k statements of the program. *)
InputsRead(k) == Cardinality({j \in 1..k : it_prog[j] = "input"})

(* The trace the first k statements of the program are to leave: an In     *)
(* node for each input read; an Out node for each print() that is the      *)
(* first statement or follows an input; the text of a print() that         *)
(* follows a print() at the end of the Out node before it.                 *)
RECURSIVE TraceOf(_)
TraceOf(k) ==
    IF k = 0 THEN <<>>
    ELSE LET before == TraceOf(k - 1)
             stmt == it_prog[k]
         IN  IF stmt = "input"
             THEN Append(before, In(it_inputs[InputsRead(k)]))
             ELSE IF k > 1 /\ IsPrint(it_prog[k - 1])
             THEN [before EXCEPT ![Len(before)] =
                      Out(before[Len(before)].data \o PieceOf(stmt))]
             ELSE Append(before, Out(PieceOf(stmt)))

(* C30: no trace of an in-process run (the list print() and input()       *)
(* write to, the test case handed to run(), the test case run() returns)   *)
(* has two Out nodes next to each other; while the program runs, the list  *)
(* is the trace of the statements executed so far, in which consecutive   *)
(* print() calls share one Out node holding their texts in print order.    *)
C30_OutputCoalesced ==
    /\ NoAdjacentOut(it_interaction)
    /\ NoAdjacentOut(it_result.nodes)
    /\ NoAdjacentOut(it_out.nodes)
    /\ (it_exec = "running" /\ it_ip <= Len(it_prog) + 1) =>
           it_interaction = TraceOf(it_ip - 1)

(* println then print: one Out node, the texts in print order. *)
C30_Witness ==
    /\ it_prog = <<"println", "print">>
    /\ it_ip = 3
    /\ it_interaction = <<Out(<<"nl", "x", "nl">>)>>

(* C31: the In nodes of every trace of an in-process run (the list the     *)
(* primitives write to, the test case handed to run(), the test case       *)
(* run() returns) are a prefix of the supplied inputs, one node for each   *)
(* input() call that was served; a MissingInputError is raised only by an  *)
(* input() call made with every input handed out, and the trace then       *)
(* holds the In nodes of the supplied inputs and no more.                  *)
C31_InputsInOrder ==
    /\ InputsOf(it_interaction) = SubSeq(it_inputs, 1, it_consumed)
    /\ it_consumed <= Len(it_inputs)
    /\ IsPrefix(InputsOf(it_result.nodes), it_inputs)
    /\ IsPrefix(InputsOf(it_out.nodes), it_inputs)
    /\ it_fail.kind = "MissingInputError" =>
           /\ it_prog[it_ip] = "input"
           /\ it_consumed = Len(it_inputs)
           /\ InputsOf(it_fail.nodes) = it_inputs
           /\ it_interaction = it_fail.nodes

(* Two inputs read by two input() calls, as given. *)
C31_Witness ==
    /\ it_inputs = << <<"a">>, <<"b">> >>
    /\ it_prog = <<"input", "input">>
    /\ it_interaction = <<In(<<"a">>), In(<<"b">>)>>

---------------------------------------------------------------------------
(* The file permissions of a sandboxed build: claims.                      *)

Writable(mode) == mode \cap WriteBits # {}

---------------------------------------------------------------------------
(* The life cycle, continued: claims.                                      *)

(* C33: has_successful_execution becomes true only by a run that ended     *)
(* well (a test case without an error, or an interactive run that          *)
(* returned), not by one classified as timeout or runtime error; once      *)
(* true it stays true.                                                     *)
C33_Original ==
    /\ [][(~bm_hse /\ bm_hse') =>
             /\ em_call'.op \in {"run", "run_interactive"}
             /\ em_call'.outcome \in {"simple", "ok"}]_vars
    /\ [][bm_hse => bm_hse']_vars

---------------------------------------------------------------------------
(* The inputs of an ExecutionManager: claim.                               *)

(* C34: the inputs only grow at their end, and a manager whose run has     *)
(* started keeps the inputs it has.                                        *)
C34_Original ==
    /\ [][IsPrefix(ai_inputs, ai_inputs')]_vars
    /\ [][ai_is_started => ai_inputs' = ai_inputs]_vars

---------------------------------------------------------------------------
(* In-process execution under a timeout: claims.                           *)

(* The worker thread of util.timeout() is alive inside wrapped_exec(): it  *)
(* may still append to self.interaction.                                   *)
WorkerMayAppend ==
    /\ it_timeout # "None"
    /\ ExecAlive
    /\ it_exec \in {"start", "running"}

(* The step of the thread in interact_with_timeout() that builds           *)
(* ErrorTestCase.timeout(self.interaction): it reads the trace buffer.     *)
SupervisorReads ==
    /\ it_main = "join"
    /\ it_main' = "done"
    /\ it_result'.error_type = "timeout"

(* C35: under a timeout the supervising thread does not read the trace     *)
(* buffer while the worker may still append to it, and the trace of a      *)
(* timeout that run() has returned does not change afterwards.             *)
C35_Original ==
    /\ [][SupervisorReads => ~WorkerMayAppend]_vars
    /\ [][it_out.error_type = "timeout" => it_out' = it_out]_vars

---------------------------------------------------------------------------
(* util.timeout: claim.                                                    *)

(* C36: timeout() with a timeout of None or zero does what a direct call   *)
(* of the function does; it raises TimeoutError only with a positive       *)
(* timeout that elapses before the function has finished.                  *)
C36_Original ==
    to_outcome # "none" =>
        /\ (~to_given \/ to_timeout = 0) => to_outcome = FuncOutcome(to_end)
        /\ to_outcome = "TimeoutError" =>
               to_given /\ to_timeout > 0 /\ to_time >= to_timeout

---------------------------------------------------------------------------
(* The global print and input over successive runs: claim.                 *)

(* C37: while the program of a run is executing (its worker is inside the  *)
(* with block and run() has not returned), the global print and input are  *)
(* that run's primitives, and the print() its program calls is its own.    *)
C37_Original ==
    \A r \in Runs :
        /\ (bi_main[r] = "join" /\ bi_worker[r] \in {"patched", "printed", "read"}) =>
               bi_builtins = r
        /\ (bi_main[r] = "join" /\ bi_worker[r] \in {"printed", "read"}) =>
               bi_printed_by[r] = r
        /\ (bi_main[r] = "join" /\ bi_worker[r] = "read") =>
               bi_read_by[r] = r


---------------------------------------------------------------------------
(* Timeout traces: claim.                                                  *)

(* run() returns a timeout-classified trace in this step. *)
PITimeoutReturned ==
    pi_pc # "done" /\ pi_pc' = "done" /\ pi_case'.error_type = "timeout"

(* C38: a timeout-classified trace returned by run() carries every node    *)
(* recorded before the deadline (the nodes of the interaction list, less   *)
(* the trailing newline run() removes), whether the timeout struck in the  *)
(* first drain, in a send or in a later drain.                             *)
C38_Original ==
    [][PITimeoutReturned =>
           pi_case'.nodes = RemoveTrailingNewline(pi_result)]_vars


---------------------------------------------------------------------------
(* grade on a failed build: claim.                                         *)

(* C39: in grade with raises off and a failed build, every answer key that *)
(* is graded gets a build-error case and the program is run for none of    *)
(* them, whatever the diagnostic of the build, the empty one included.     *)
C39_Original ==
    (fn_func = "grade" /\ ~fn_raises /\ fn_build # "ok") =>
        /\ fn_pc \notin {"raised", "blocked"}
        /\ \A i \in DOMAIN fn_cases :
              fn_cases[i].class = "build" /\ fn_cases[i].deadline = "no-run"
        /\ fn_pc = "returned" => Len(fn_cases) >= 1


---------------------------------------------------------------------------
(* The life cycle flags and durations: claim.                              *)

(* C40: in every reachable state, for every ExecutionManager, closed       *)
(* implies started, started implies that the BuildManager is built, and    *)
(* the recorded duration is non-zero only if the manager is closed; the    *)
(* BuildManager's accumulated execution duration is non-zero only if it    *)
(* is built.                                                               *)
C40_LifeCycleInvariant ==
    /\ \A e \in EMs :
          /\ em_is_closed[e] => em_is_started[e]
          /\ em_is_started[e] => bm_is_built
          /\ em_duration[e] # 0 => em_is_closed[e]
    /\ bm_exec_dur # 0 => bm_is_built

(* One manager has run to its end with a duration recorded and added to    *)
(* the total, another one was started and left open by an exception, and   *)
(* the build manager has been closed since.                                *)
C40_Witness ==
    /\ \E e \in EMs : em_is_closed[e] /\ em_duration[e] # 0
    /\ \E e \in EMs : em_is_started[e] /\ ~em_is_closed[e]
    /\ bm_exec_dur # 0
    /\ bm_is_closed

============================================================================
